---- MODULE Spec2Model ----
(***************************************************************************)
(* NewsLetterPlatform: the subscription state machine, the tenant-scoped   *)
(* repositories, the collect and send jobs, the SMTP batch sender and the  *)
(* retry helper, modelled from the Python sources.                         *)
(*                                                                         *)
(* The database is the set of committed tables.  A handler works on a      *)
(* session: a copy of the tables it reads and writes, which replaces the   *)
(* committed tables when the handler commits and is dropped otherwise.     *)
(***************************************************************************)
EXTENDS Integers, Sequences, FiniteSets, TLC

VARIABLES
    subscribers,            \* table subscribers: sequence of rows, id = index
    email_verifications,    \* table email_verifications: set of rows with an id
    next_verification_id,   \* AUTOINCREMENT counter of email_verifications
    next_token,             \* the next value the random token generators yield
    now,                    \* datetime.utcnow(), in minutes
    last,                   \* the request handled last: arguments, result, session
    send_history,           \* table send_history: sequence of rows, id = index
    collected_data,         \* table collected_data: sequence of rows, id = index
    collected_data_history, \* table collected_data_history: set of rows
    job,                    \* per worker thread: the send job it is running
    welcome,                \* the welcome thread: its call and its result
    collect,                \* the collect job run last: arguments and result
    http,                   \* the collector request in flight and its attempts
    is_configured,          \* GmailSender.is_configured: address and password set
    main,                   \* main(): the mode chosen and the position in its loops
    wrong_codes,            \* per verification id: wrong codes posted so far
    sessions                \* per open database session: what it has read

vars == <<subscribers, email_verifications, next_verification_id, next_token,
          now, last, send_history, collected_data, collected_data_history,
          job, welcome, collect, http, is_configured, main, wrong_codes, sessions>>

----------------------------------------------------------------------------
(* Bounds of the model *)

MaxVerifications == 1
MaxTokens == 2
TickMinutes == 10
MaxNow == 20

(* Program constants *)

verification_expiry_minutes == 10
max_verification_attempts == 5
MinutesPerDay == 1440

TenantIds == {"teacher-hub", "edufit"}

\* Addresses as typed into the forms, and the codes as typed.
RawEmails == {"kim@x.io", "Kim@x.io"}
RawCodes == {"111111", "222222", " 111111"}
Names == {"", "Kim"}

\* random.choices(string.digits, k=6): the codes the generator can yield
GeneratedCodes == {"111111"}

\* str.strip().lower() on the addresses of RawEmails
NormalizeEmail(e) == IF e = "Kim@x.io" THEN "kim@x.io" ELSE e

\* str.strip() on the codes of RawCodes
StripCode(c) == IF c = " 111111" THEN "111111" ELSE c

Emails == {NormalizeEmail(e) : e \in RawEmails}

----------------------------------------------------------------------------
(* SubscriberRepository *)

SubscriberIds(subs) == DOMAIN subs

MinOf(S) == CHOOSE x \in S : \A y \in S : x <= y

\* .first() of a query: the lowest id among the matches, 0 for None
First(S) == IF S = {} THEN 0 ELSE MinOf(S)

get_by_email(subs, tenant_id, email) ==
    First({i \in DOMAIN subs :
            subs[i].tenant_id = tenant_id /\ subs[i].email = email})

get_active_by_email(subs, tenant_id, email) ==
    First({i \in DOMAIN subs :
            /\ subs[i].tenant_id = tenant_id
            /\ subs[i].email = email
            /\ subs[i].is_active})

get_all_active(subs, tenant_id) ==
    {i \in DOMAIN subs : subs[i].tenant_id = tenant_id /\ subs[i].is_active}

get_by_unsubscribe_token(subs, token) ==
    First({i \in DOMAIN subs :
            subs[i].unsubscribe_token = token /\ subs[i].is_active})

count_by_tenant(subs, tenant_id, active_only) ==
    Cardinality({i \in DOMAIN subs :
                   /\ subs[i].tenant_id = tenant_id
                   /\ (active_only => subs[i].is_active)})

get_by_id(subs, subscriber_id) ==
    IF subscriber_id \in DOMAIN subs THEN subscriber_id ELSE 0

\* active_only is "all" (None), "active" (True) or "inactive" (False); the
\* result is the set of matching ids (total is its cardinality); the search
\* pattern and the page window only narrow this set further.
get_all_by_tenant(subs, tenant_id, active_only) ==
    {i \in DOMAIN subs :
       /\ subs[i].tenant_id = tenant_id
       /\ (active_only = "active" => subs[i].is_active)
       /\ (active_only = "inactive" => ~subs[i].is_active)}

SubscriberCreate(subs, tenant_id, email, name, unsubscribe_token) ==
    Append(subs, [tenant_id |-> tenant_id, email |-> email, name |-> name,
                  unsubscribe_token |-> unsubscribe_token, is_active |-> TRUE])

----------------------------------------------------------------------------
(* EmailVerificationRepository *)

VerificationById(vers, id) == CHOOSE v \in vers : v.id = id

\* the id of the row found, 0 for None
get_by_id_and_email(vers, verification_id, email) ==
    IF \E v \in vers : v.id = verification_id /\ v.email = email
    THEN verification_id ELSE 0

get_unsubscribe_by_id_and_email(vers, verification_id, email) ==
    IF \E v \in vers : /\ v.id = verification_id
                       /\ v.email = email
                       /\ v.verification_type = "unsubscribe"
    THEN verification_id ELSE 0

\* verification_type "any" is the default None: no filter on the type
delete_pending(vers, tenant_id, email, verification_type) ==
    {v \in vers :
       ~(/\ v.tenant_id = tenant_id
         /\ v.email = email
         /\ ~v.is_verified
         /\ (verification_type # "any"
                => v.verification_type = verification_type))}

VerificationCreate(vers, id, tenant_id, email, name, code, vtype, expires_at) ==
    vers \cup {[id |-> id, tenant_id |-> tenant_id, email |-> email,
                name |-> name, code |-> code, verification_type |-> vtype,
                is_verified |-> FALSE, attempts |-> 0,
                expires_at |-> expires_at]}

UpdateVerification(vers, id, new) ==
    (vers \ {VerificationById(vers, id)}) \cup {new}

----------------------------------------------------------------------------
(* SubscriptionManager: each operation takes the session's tables and      *)
(* yields its result with the session's tables after the call.             *)

Result(ok, msg, subs, vers, vid, sid, remaining) ==
    [ok |-> ok, msg |-> msg, subs |-> subs, vers |-> vers, vid |-> vid,
     sid |-> sid, remaining |-> remaining]

request_subscribe(subs, vers, nvid, t, tenant_id, raw_email, name, code) ==
    LET email == NormalizeEmail(raw_email)
        existing == get_active_by_email(subs, tenant_id, email)
        expires_at == t + verification_expiry_minutes
        pruned == delete_pending(vers, tenant_id, email, "any")
    IN  IF existing # 0
        THEN Result(FALSE, "already_subscribed", subs, vers, 0, 0, 0)
        ELSE Result(TRUE, code, subs,
                    VerificationCreate(pruned, nvid, tenant_id, email, name,
                                       code, "subscribe", expires_at),
                    nvid, 0, 0)

\* mutant: the expiry is never checked
VerificationExpiredNever(t, v) == FALSE

VerificationExpired(t, v) == t > v.expires_at

\* mutant: the limit is compared with > instead of >=
AttemptsExhaustedOffByOne(v) == v.attempts > max_verification_attempts

AttemptsExhausted(v) == v.attempts >= max_verification_attempts

verify_subscribe(subs, vers, t, token, verification_id, email, raw_code) ==
    LET code == StripCode(raw_code)
        found == get_by_id_and_email(vers, verification_id, email)
    IN  IF found = 0
        THEN Result(FALSE, "not_found", subs, vers, 0, 0, 0)
        ELSE
        LET v == VerificationById(vers, found) IN
        IF VerificationExpired(t, v)
        THEN Result(FALSE, "expired", subs, vers, found, 0, 0)
        ELSE IF AttemptsExhausted(v)
        THEN Result(FALSE, "attempts_exceeded", subs, vers, found, 0, 0)
        ELSE IF v.code # code
        THEN Result(FALSE, "code_mismatch", subs,
                    UpdateVerification(vers, found,
                        [v EXCEPT !.attempts = v.attempts + 1]),
                    found, 0, max_verification_attempts - (v.attempts + 1))
        ELSE
        LET vers2 == UpdateVerification(vers, found,
                        [v EXCEPT !.is_verified = TRUE])
            existing == get_by_email(subs, v.tenant_id, email)
        IN  IF existing # 0
            THEN Result(TRUE, "subscribed",
                        [subs EXCEPT ![existing] =
                            [@ EXCEPT !.is_active = TRUE,
                                      !.name = IF v.name # "" THEN v.name
                                               ELSE @,
                                      !.unsubscribe_token = token]],
                        vers2, found, existing, 0)
            ELSE Result(TRUE, "subscribed",
                        SubscriberCreate(subs, v.tenant_id, email, v.name,
                                         token),
                        vers2, found, Len(subs) + 1, 0)

request_unsubscribe(subs, vers, nvid, t, tenant_id, raw_email, code) ==
    LET email == NormalizeEmail(raw_email)
        subscriber == get_active_by_email(subs, tenant_id, email)
        expires_at == t + verification_expiry_minutes
        pruned == delete_pending(vers, tenant_id, email, "unsubscribe")
    IN  IF subscriber = 0
        THEN Result(FALSE, "not_subscribed", subs, vers, 0, 0, 0)
        ELSE Result(TRUE, code, subs,
                    VerificationCreate(pruned, nvid, tenant_id, email,
                                       subs[subscriber].name, code,
                                       "unsubscribe", expires_at),
                    nvid, subscriber, 0)

\* mutant: a wrong code is not counted
verify_unsubscribe_uncounted(subs, vers, t, verification_id, email, raw_code) ==
    LET code == StripCode(raw_code)
        found == get_unsubscribe_by_id_and_email(vers, verification_id, email)
    IN  IF found = 0
        THEN Result(FALSE, "not_found", subs, vers, 0, 0, 0)
        ELSE
        LET v == VerificationById(vers, found) IN
        IF VerificationExpired(t, v)
        THEN Result(FALSE, "expired", subs, vers, found, 0, 0)
        ELSE IF AttemptsExhausted(v)
        THEN Result(FALSE, "attempts_exceeded", subs, vers, found, 0, 0)
        ELSE IF v.code # code
        THEN Result(FALSE, "code_mismatch", subs, vers,
                    found, 0, max_verification_attempts - (v.attempts + 1))
        ELSE
        LET vers2 == UpdateVerification(vers, found,
                        [v EXCEPT !.is_verified = TRUE])
            subscriber == get_active_by_email(subs, v.tenant_id, email)
        IN  IF subscriber # 0
            THEN Result(TRUE, "unsubscribed",
                        [subs EXCEPT ![subscriber].is_active = FALSE],
                        vers2, found, subscriber, 0)
            ELSE Result(TRUE, "unsubscribed", subs, vers2, found, 0, 0)

verify_unsubscribe(subs, vers, t, verification_id, email, raw_code) ==
    LET code == StripCode(raw_code)
        found == get_unsubscribe_by_id_and_email(vers, verification_id, email)
    IN  IF found = 0
        THEN Result(FALSE, "not_found", subs, vers, 0, 0, 0)
        ELSE
        LET v == VerificationById(vers, found) IN
        IF VerificationExpired(t, v)
        THEN Result(FALSE, "expired", subs, vers, found, 0, 0)
        ELSE IF AttemptsExhausted(v)
        THEN Result(FALSE, "attempts_exceeded", subs, vers, found, 0, 0)
        ELSE IF v.code # code
        THEN Result(FALSE, "code_mismatch", subs,
                    UpdateVerification(vers, found,
                        [v EXCEPT !.attempts = v.attempts + 1]),
                    found, 0, max_verification_attempts - (v.attempts + 1))
        ELSE
        LET vers2 == UpdateVerification(vers, found,
                        [v EXCEPT !.is_verified = TRUE])
            subscriber == get_active_by_email(subs, v.tenant_id, email)
        IN  IF subscriber # 0
            THEN Result(TRUE, "unsubscribed",
                        [subs EXCEPT ![subscriber].is_active = FALSE],
                        vers2, found, subscriber, 0)
            ELSE Result(TRUE, "unsubscribed", subs, vers2, found, 0, 0)

unsubscribe_by_token(subs, vers, token) ==
    LET subscriber == get_by_unsubscribe_token(subs, token)
    IN  IF subscriber = 0
        THEN Result(FALSE, "invalid_link", subs, vers, 0, 0, 0)
        ELSE Result(TRUE, "unsubscribed",
                    [subs EXCEPT ![subscriber].is_active = FALSE],
                    vers, 0, subscriber, 0)

----------------------------------------------------------------------------
(* The web and admin route handlers.  Each opens a session, calls the      *)
(* manager, commits when the call succeeded and closes the session; a      *)
(* session closed without a commit loses what the call wrote.              *)

NoRequest ==
    [op |-> "none", tenant_id |-> "", verification_id |-> 0,
     code_ok |-> FALSE, subscriber_id |-> 0, ok |-> FALSE, msg |-> "",
     remaining |-> 0]

\* whether the code typed is the code of the verification row addressed
CodeMatches(vers, vid, raw_code) ==
    \E v \in vers : v.id = vid /\ v.code = StripCode(raw_code)

\* what is remembered of a request: its route, the tenant of its URL, the
\* verification addressed, whether the typed code was the right one, and
\* the result with the attempts it reports as remaining
Request(op, tenant_id, vid, raw_code, token, r) ==
    [op |-> op, tenant_id |-> tenant_id, verification_id |-> vid,
     code_ok |-> CodeMatches(email_verifications, vid, raw_code),
     subscriber_id |-> r.sid, ok |-> r.ok, msg |-> r.msg,
     remaining |-> r.remaining]

\* keep = TRUE: the session's writes stay (flushed, or committed);
\* keep = FALSE: db.close() without db.commit() drops them
Apply(r, keep) ==
    /\ subscribers' = IF keep THEN r.subs ELSE subscribers
    /\ email_verifications' = IF keep THEN r.vers ELSE email_verifications

\* what a request of the web application leaves alone, the count of the
\* wrong codes apart
OtherSideUnchanged ==
    UNCHANGED <<send_history, collected_data, collected_data_history, job,
                welcome, collect, http, is_configured, main, sessions>>

SendSideUnchanged == OtherSideUnchanged /\ UNCHANGED wrong_codes

\* SubscriptionManager.request_subscribe on a session
call_request_subscribe(op, commit_always, tenant_id, raw_email, name) ==
    /\ next_verification_id <= MaxVerifications
    /\ \E code \in GeneratedCodes :
         LET r == request_subscribe(subscribers, email_verifications,
                                    next_verification_id, now, tenant_id,
                                    raw_email, name, code)
         IN  /\ Apply(r, commit_always \/ r.ok)
             /\ next_verification_id' =
                  IF r.ok THEN next_verification_id + 1
                  ELSE next_verification_id
             /\ last' = Request(op, tenant_id, r.vid, "", 0, r)
    /\ UNCHANGED <<next_token, now>>
    /\ SendSideUnchanged

\* SubscriptionManager.verify_subscribe on a session
call_verify_subscribe(op, commit_always, tenant_id, verification_id, raw_email, raw_code) ==
    LET r == verify_subscribe(subscribers, email_verifications, now,
                              next_token, verification_id, raw_email,
                              raw_code)
    IN  /\ r.ok => next_token <= MaxTokens
        /\ Apply(r, commit_always \/ r.ok)
        /\ next_token' = IF r.ok THEN next_token + 1 ELSE next_token
        /\ last' = Request(op, tenant_id, verification_id, raw_code, 0, r)
        /\ UNCHANGED <<next_verification_id, now>>
        /\ OtherSideUnchanged

\* SubscriptionManager.request_unsubscribe on a session
call_request_unsubscribe(op, commit_always, tenant_id, raw_email) ==
    /\ next_verification_id <= MaxVerifications
    /\ \E code \in GeneratedCodes :
         LET r == request_unsubscribe(subscribers, email_verifications,
                                      next_verification_id, now, tenant_id,
                                      raw_email, code)
         IN  /\ Apply(r, commit_always \/ r.ok)
             /\ next_verification_id' =
                  IF r.ok THEN next_verification_id + 1
                  ELSE next_verification_id
             /\ last' = Request(op, tenant_id, r.vid, "", 0, r)
    /\ UNCHANGED <<next_token, now>>
    /\ SendSideUnchanged

\* SubscriptionManager.verify_unsubscribe on a session
call_verify_unsubscribe(op, commit_always, tenant_id, verification_id, raw_email, raw_code) ==
    LET r == verify_unsubscribe(subscribers, email_verifications, now,
                                verification_id, raw_email, raw_code)
    IN  /\ Apply(r, commit_always \/ r.ok)
        /\ last' = Request(op, tenant_id, verification_id, raw_code, 0, r)
        /\ UNCHANGED <<next_verification_id, next_token, now>>
        /\ OtherSideUnchanged

\* SubscriptionManager.unsubscribe_by_token on a session
call_unsubscribe_by_token(op, commit_always, tenant_id, token) ==
    LET r == unsubscribe_by_token(subscribers, email_verifications, token)
    IN  /\ Apply(r, commit_always \/ r.ok)
        /\ last' = Request(op, tenant_id, 0, "", token, r)
        /\ UNCHANGED <<next_verification_id, next_token, now>>
        /\ SendSideUnchanged

\* POST /{tenant_id}/subscribe
subscribe_submit(tenant_id, raw_email, name) ==
    call_request_subscribe("subscribe_submit", FALSE, tenant_id, raw_email,
                           name)

\* POST /{tenant_id}/verify
verify_submit(tenant_id, verification_id, raw_email, raw_code) ==
    /\ call_verify_subscribe("verify_submit", FALSE, tenant_id,
                             verification_id, raw_email, raw_code)
    /\ UNCHANGED wrong_codes

\* POST /{tenant_id}/unsubscribe
unsubscribe_submit(tenant_id, raw_email) ==
    call_request_unsubscribe("unsubscribe_submit", FALSE, tenant_id,
                             raw_email)

\* POST /{tenant_id}/unsubscribe/verify
unsubscribe_verify_submit(tenant_id, verification_id, raw_email, raw_code) ==
    /\ call_verify_unsubscribe("unsubscribe_verify_submit", FALSE, tenant_id,
                               verification_id, raw_email, raw_code)
    /\ UNCHANGED wrong_codes

\* GET /{tenant_id}/unsubscribe/token/{token}
unsubscribe_by_token_route(tenant_id, token) ==
    call_unsubscribe_by_token("unsubscribe_by_token_route", FALSE, tenant_id,
                              token)

\* POST /admin/{tenant_id}/subscribers/add
subscriber_add(tenant_id, raw_email, name) ==
    LET email == NormalizeEmail(raw_email)
        existing == get_by_email(subscribers, tenant_id, email)
        r == IF existing # 0
             THEN IF ~subscribers[existing].is_active
                  THEN Result(TRUE, "reactivated",
                              [subscribers EXCEPT ![existing].is_active = TRUE],
                              email_verifications, 0, existing, 0)
                  ELSE Result(FALSE, "already_registered", subscribers,
                              email_verifications, 0, existing, 0)
             ELSE Result(TRUE, "added",
                         SubscriberCreate(subscribers, tenant_id, email, name,
                                          next_token),
                         email_verifications, 0, Len(subscribers) + 1, 0)
    IN  /\ (existing = 0) => next_token <= MaxTokens
        /\ Apply(r, r.ok)
        /\ next_token' = IF existing = 0 THEN next_token + 1 ELSE next_token
        /\ last' = Request("subscriber_add", tenant_id, 0, "", 0, r)
        /\ UNCHANGED <<next_verification_id, now>>
        /\ SendSideUnchanged

\* mutant: the tenant of the URL is not compared with the row's tenant
ToggleAllowedAnyTenant(subs, tenant_id, subscriber_id) ==
    get_by_id(subs, subscriber_id) # 0

\* the guard of subscriber_toggle: the row exists and belongs to the tenant
ToggleAllowed(subs, tenant_id, subscriber_id) ==
    /\ get_by_id(subs, subscriber_id) # 0
    /\ subs[subscriber_id].tenant_id = tenant_id

\* POST /admin/{tenant_id}/subscribers/{subscriber_id}/toggle
subscriber_toggle(tenant_id, subscriber_id) ==
    LET r == IF ~ToggleAllowed(subscribers, tenant_id, subscriber_id)
             THEN Result(FALSE, "not_found", subscribers, email_verifications,
                         0, subscriber_id, 0)
             ELSE Result(TRUE, "toggled",
                         [subscribers EXCEPT ![subscriber_id].is_active = ~@],
                         email_verifications, 0, subscriber_id, 0)
    IN  /\ Apply(r, r.ok)
        /\ last' = Request("subscriber_toggle", tenant_id, 0, "", 0, r)
        /\ UNCHANGED <<next_verification_id, next_token, now>>
        /\ SendSideUnchanged

\* time passes
Tick ==
    /\ now + TickMinutes <= MaxNow
    /\ now' = now + TickMinutes
    /\ UNCHANGED <<subscribers, email_verifications, next_verification_id,
                   next_token, last>>
    /\ SendSideUnchanged

\* no send job has run: the record of a send job is its position, its
\* arguments, the subscribers it targets (messages), the results of the
\* first batch, the failed items and the results of their retry, the rows
\* its session has flushed, the sendmail calls and the batches per target,
\* how it ended, its sent_count and the dict it passed to format_report
NoJob ==
    [pc |-> "idle", tenant_id |-> "", newsletter_type |-> "",
     targets |-> <<>>, results |-> <<>>, failed_items |-> <<>>,
     retry_results |-> <<>>, session |-> <<>>, sendmail |-> <<>>,
     passes |-> <<>>, outcome |-> "none", sent_count |-> 0,
     formatter_input |-> <<>>]

\* no welcome call has run: the record of a call is its position, its
\* arguments, the subscriber found, whether the mail was accepted, the
\* sendmail calls made, what it returned and why, and when it sent
NoWelcome ==
    [pc |-> "idle", tenant_id |-> "", email |-> "", subscriber_id |-> 0,
     delivered |-> FALSE, sendmail |-> 0, returned |-> "none",
     outcome |-> "none", sent_at |-> 0]

\* no collect job has run: the record of a collect job is its position,
\* its arguments, what the collection returned, the data types still to
\* write, its session's view of collected_data and of
\* collected_data_history, and how it ended
NoCollect ==
    [pc |-> "idle", tenant_id |-> "", newsletter_type |-> "",
     collected |-> <<>>, todo |-> <<>>, session_data |-> <<>>,
     session_history |-> {}, outcome |-> "none"]

\* no request is in flight: the record of a _get (or of a direct call of
\* retry_async) is its position, who called, the path, whether
\* retry_async is used and with what arguments, the loop index, the
\* requests made and the delays slept
NoHttp ==
    [pc |-> "idle", caller |-> "", path |-> "", retry |-> FALSE,
     max_retries |-> 0, base_delay |-> 0, attempt |-> 0, calls |-> 0,
     slept |-> <<>>]

\* main() has not been started: the record of a run is its position, the
\* mode of the command line, the target tenants, the index of its loop and
\* the jobs that have returned, in order
NoMain ==
    [pc |-> "idle", mode |-> "", target_ids |-> <<>>, i |-> 0, returned |-> <<>>]

\* a database session that has read nothing: the record of an open one is
\* the route it serves, the tenant of the URL, the verification used, the
\* write it is about to flush (insert a subscriber or update the one found)
\* and the values of that row
NoSession ==
    [pc |-> "idle", op |-> "", tenant_id |-> "", verification_id |-> 0,
     write |-> "none", subscriber_id |-> 0, row_tenant_id |-> "",
     email |-> "", name |-> "", unsubscribe_token |-> 0]

\* two requests can be in flight at once
SessionIds == {"first", "second"}

NoSessions == [s \in SessionIds |-> NoSession]

\* no wrong code has been posted for any verification
NoWrongCodes == [v \in 1..MaxVerifications |-> 0]

Init ==
    /\ subscribers = <<>>
    /\ email_verifications = {}
    /\ next_verification_id = 1
    /\ next_token = 1
    /\ now = 0
    /\ last = NoRequest
    /\ send_history = <<>>
    /\ collected_data = <<>>
    /\ collected_data_history = {}
    /\ job = NoJob
    /\ welcome = NoWelcome
    /\ collect = NoCollect
    /\ http = NoHttp
    /\ is_configured = TRUE
    /\ main = NoMain
    /\ wrong_codes = NoWrongCodes
    /\ sessions = NoSessions

VerificationIds == 1..MaxVerifications
TokenValues == 1..MaxTokens
RowIds == 1..(Cardinality(TenantIds) * Cardinality(Emails))

(* The web application: the public routes and the admin routes, one      *)
(* request at a time.  Verification expiry is exercised in SpecManager.    *)
Next ==
    \/ \E t \in TenantIds, e \in RawEmails, n \in Names :
         subscribe_submit(t, e, n)
    \/ \E t \in TenantIds, v \in VerificationIds, e \in RawEmails,
          c \in RawCodes : verify_submit(t, v, e, c)
    \/ \E t \in TenantIds, e \in RawEmails : unsubscribe_submit(t, e)
    \/ \E t \in TenantIds, v \in VerificationIds, e \in RawEmails,
          c \in RawCodes : unsubscribe_verify_submit(t, v, e, c)
    \/ \E t \in TenantIds, k \in TokenValues :
         unsubscribe_by_token_route(t, k)
    \/ \E t \in TenantIds, e \in RawEmails, n \in Names :
         subscriber_add(t, e, n)
    \/ \E t \in TenantIds, i \in RowIds : subscriber_toggle(t, i)

Spec == Init /\ [][Next]_vars

(* The subscription manager as a component: every call runs in a session  *)
(* that keeps what the call flushed (the next call sees it), as under      *)
(* get_session(), which commits when its block ends; the admin's add form  *)
(* supplies subscribers that did not come through a verification; time     *)
(* passes.                                                                 *)
ManagerTenant == "teacher-hub"

NextManager ==
    \/ \E e \in RawEmails, n \in Names : subscriber_add(ManagerTenant, e, n)
    \/ \E e \in RawEmails, n \in Names :
         call_request_subscribe("request_subscribe", TRUE, ManagerTenant, e, n)
    \/ \E v \in VerificationIds, e \in RawEmails, c \in RawCodes :
         /\ call_verify_subscribe("verify_subscribe", TRUE, ManagerTenant,
                                  v, e, c)
         /\ UNCHANGED wrong_codes
    \/ \E e \in RawEmails :
         call_request_unsubscribe("request_unsubscribe", TRUE, ManagerTenant, e)
    \/ \E v \in VerificationIds, e \in RawEmails, c \in RawCodes :
         /\ call_verify_unsubscribe("verify_unsubscribe", TRUE,
                                    ManagerTenant, v, e, c)
         /\ UNCHANGED wrong_codes
    \/ \E k \in TokenValues :
         call_unsubscribe_by_token("unsubscribe_by_token", TRUE,
                                   ManagerTenant, k)
    \/ Tick

SpecManager == Init /\ [][NextManager]_vars

----------------------------------------------------------------------------
(* SendHistoryRepository.  A row of send_history: tenant_id,               *)
(* subscriber_id, newsletter_type, is_success, error_message ("" is None)  *)
(* and sent_at; its id is its index.                                       *)

MaxHistory == 3
MaxDay == 1

\* datetime.utcnow().replace(hour=0, minute=0, second=0, microsecond=0)
TodayStart(t) == (t \div MinutesPerDay) * MinutesPerDay

SendHistoryRow(t, tenant_id, subscriber_id, is_success, error_message, newsletter_type) ==
    [tenant_id |-> tenant_id, subscriber_id |-> subscriber_id,
     newsletter_type |-> newsletter_type, is_success |-> is_success,
     error_message |-> error_message, sent_at |-> t]

\* mutant: a failed row counts as sent
already_sent_today_any_result(hist, t, tenant_id, subscriber_id) ==
    \E i \in DOMAIN hist :
        /\ hist[i].tenant_id = tenant_id
        /\ hist[i].subscriber_id = subscriber_id
        /\ hist[i].sent_at >= TodayStart(t)

already_sent_today(hist, t, tenant_id, subscriber_id) ==
    \E i \in DOMAIN hist :
        /\ hist[i].tenant_id = tenant_id
        /\ hist[i].subscriber_id = subscriber_id
        /\ hist[i].sent_at >= TodayStart(t)
        /\ hist[i].is_success

\* mutant: nobody counts as sent today
get_sent_today_subscriber_ids_none(hist, t, tenant_id) == {}

get_sent_today_subscriber_ids(hist, t, tenant_id) ==
    {hist[i].subscriber_id :
        i \in {j \in DOMAIN hist : /\ hist[j].tenant_id = tenant_id
                                   /\ hist[j].sent_at >= TodayStart(t)
                                   /\ hist[j].is_success}}

----------------------------------------------------------------------------
(* CollectedDataRepository.  A row of collected_data: tenant_id,           *)
(* data_type, data_json, collected_at; its id is its index.  What a        *)
(* collector returns per data type is a JSON object, here {"total": n};    *)
(* json.dumps writes it as text (a sequence of tokens), json.loads reads   *)
(* the text back.                                                          *)

DataTypes == {"daily_report", "weekly_summary"}
DataValues == {[total |-> 1], [total |-> 2]}

Digit(n) == IF n = 1 THEN "1" ELSE "2"
Number(d) == IF d = "1" THEN 1 ELSE 2

JsonDumps(data) == <<"{", "\"total\"", ":", Digit(data.total), "}">>
JsonLoads(text) == [total |-> Number(text[4])]

CollectedRows(cd, tenant_id, data_type) ==
    {i \in DOMAIN cd : cd[i].tenant_id = tenant_id /\ cd[i].data_type = data_type}

\* mutant: always inserts a new row
upsert_insert_only(cd, t, tenant_id, data_type, data) ==
    Append(cd, [tenant_id |-> tenant_id, data_type |-> data_type,
                data_json |-> JsonDumps(data), collected_at |-> t])

upsert(cd, t, tenant_id, data_type, data) ==
    LET existing == First(CollectedRows(cd, tenant_id, data_type))
    IN  IF existing # 0
        THEN [cd EXCEPT ![existing].data_json = JsonDumps(data),
                        ![existing].collected_at = t]
        ELSE Append(cd, [tenant_id |-> tenant_id, data_type |-> data_type,
                         data_json |-> JsonDumps(data), collected_at |-> t])

MaxOf(S) == CHOOSE x \in S : \A y \in S : x >= y

\* the rows of the pair ordered by collected_at descending, first one; rows
\* with equal collected_at come in any order: every row of the latest time
\* is a possible answer, None is <<>>
get_latest(cd, tenant_id, data_type) ==
    LET rows == CollectedRows(cd, tenant_id, data_type)
    IN  IF rows = {} THEN {<<>>}
        ELSE {JsonLoads(cd[i].data_json) :
                 i \in {j \in rows :
                          \A k \in rows : cd[j].collected_at >= cd[k].collected_at}}

\* per data type the row with the greatest id
get_all_latest(cd, tenant_id) ==
    LET types == {cd[i].data_type : i \in {j \in DOMAIN cd : cd[j].tenant_id = tenant_id}}
    IN  [dt \in types |->
            JsonLoads(cd[MaxOf(CollectedRows(cd, tenant_id, dt))].data_json)]

\* a row of collected_data_history: tenant_id, data_type, collected_date,
\* data_json; one row per (tenant, type, date) is updated or inserted
save_to_history(hist, t, tenant_id, data_type, data) ==
    LET day == t \div MinutesPerDay
        same(r) == /\ r.tenant_id = tenant_id
                   /\ r.data_type = data_type
                   /\ r.collected_date = day
    IN  {r \in hist : ~same(r)} \cup
        {[tenant_id |-> tenant_id, data_type |-> data_type,
          collected_date |-> day, data_json |-> JsonDumps(data)]}

----------------------------------------------------------------------------
(* GmailSender.  What the SMTP server does with one message of a batch:    *)
(*   sent                           sendmail accepted                      *)
(*   refused                        sendmail raised (recipient refused or  *)
(*                                  another error) - a failure result      *)
(*   disconnected_reconnect_failed  SMTPServerDisconnected, _connect raised *)
(*   disconnected_resent            disconnected, reconnected, accepted    *)
(*   disconnected_resend_refused    disconnected, reconnected, refused     *)
(*   disconnected_twice             disconnected, reconnected, disconnected *)

SmtpScripts ==
    {"sent", "refused", "disconnected_reconnect_failed", "disconnected_resent",
     "disconnected_resend_refused", "disconnected_twice"}

SendResult(recipient, success, error_message) ==
    [recipient |-> recipient, success |-> success, error_message |-> error_message]

\* the result of one message of the loop of send_batch_efficient
SendInBatch(recipient, script) ==
    CASE script = "sent" -> SendResult(recipient, TRUE, "")
      [] script = "refused" -> SendResult(recipient, FALSE, "refused")
      [] script = "disconnected_reconnect_failed" ->
            SendResult(recipient, FALSE, "resend_failed")
      [] script = "disconnected_resent" -> SendResult(recipient, TRUE, "")
      [] script = "disconnected_resend_refused" ->
            SendResult(recipient, FALSE, "refused")
      [] script = "disconnected_twice" ->
            SendResult(recipient, FALSE, "resend_failed")

\* mutant: after a disconnect the message is sent twice more
SendmailCallsThreeOnDisconnect(script) ==
    IF script \in {"sent", "refused", "disconnected_reconnect_failed"}
    THEN 1 ELSE 3

\* how many times server.sendmail is called for one message of the loop
SendmailCalls(script) ==
    IF script \in {"sent", "refused", "disconnected_reconnect_failed"}
    THEN 1 ELSE 2

\* mutant: after the first disconnect the rest of the batch is given up
send_batch_efficient_gives_up(configured, messages, connected, script) ==
    LET dropped == {i \in DOMAIN messages :
                       script[i] \notin {"sent", "refused"}}
    IN  IF ~configured
        THEN [i \in DOMAIN messages |-> SendResult(messages[i], FALSE, "not_configured")]
        ELSE IF messages = <<>> THEN <<>>
        ELSE IF ~connected
        THEN [i \in DOMAIN messages |-> SendResult(messages[i], FALSE, "connect_failed")]
        ELSE [i \in DOMAIN messages |->
                 IF \E k \in dropped : k < i
                 THEN SendResult(messages[i], FALSE, "connect_failed")
                 ELSE SendInBatch(messages[i], script[i])]

\* one result per message: all failures when the sender is not configured
\* or the connection cannot be opened, else the result of each message
send_batch_efficient(configured, messages, connected, script) ==
    IF ~configured
    THEN [i \in DOMAIN messages |-> SendResult(messages[i], FALSE, "not_configured")]
    ELSE IF messages = <<>> THEN <<>>
    ELSE IF ~connected
    THEN [i \in DOMAIN messages |-> SendResult(messages[i], FALSE, "connect_failed")]
    ELSE [i \in DOMAIN messages |-> SendInBatch(messages[i], script[i])]

\* the sendmail calls made by send_batch_efficient, per message
BatchSendmailCalls(configured, messages, connected, script) ==
    [i \in DOMAIN messages |->
        IF configured /\ connected THEN SendmailCalls(script[i]) ELSE 0]

\* GmailSender.send: one connection, one sendmail, every exception caught
send(configured, recipient, accepted) ==
    IF ~configured THEN SendResult(recipient, FALSE, "not_configured")
    ELSE IF accepted THEN SendResult(recipient, TRUE, "")
    ELSE SendResult(recipient, FALSE, "refused")

----------------------------------------------------------------------------
(* run_send_job(tenant_id, "daily").  The whole job runs in one session:   *)
(* the rows it creates are flushed into the session and committed when the *)
(* with block ends; an exception raised by a database write leaves the     *)
(* block, rolls the session back and propagates to the caller.             *)

Range(f) == {f[i] : i \in DOMAIN f}

RECURSIVE SortedSeq(_)
\* the members of a set of ids in ascending order
SortedSeq(S) ==
    IF S = {} THEN <<>> ELSE <<MinOf(S)>> \o SortedSeq(S \ {MinOf(S)})

UnchangedBySend ==
    UNCHANGED <<subscribers, email_verifications, next_verification_id,
                next_token, now, last, collected_data, collected_data_history,
                collect, http, is_configured, main, wrong_codes, sessions>>

\* whether _prepare_daily_send skips the cache entry of the data type:
\* data_type.startswith("weekly_") or data_type.startswith("monthly_")
SkippedByDailySend(data_type) ==
    data_type \in {"weekly_summary", "weekly_daily_report",
                   "weekly_weekly_summary", "monthly_daily_report",
                   "monthly_weekly_summary"}

\* _prepare_daily_send: the dict handed to tenant.format_report
prepare_daily_send(cd, tenant_id) ==
    LET cache == get_all_latest(cd, tenant_id)
    IN  [dt \in {x \in DOMAIN cache : ~SkippedByDailySend(x)} |-> cache[dt]]

\* from the start of the job to the first batch: the early returns and the
\* list of messages
run_send_job_start(tenant_id, renders) ==
    /\ job.pc = "idle"
    /\ LET cache == get_all_latest(collected_data, tenant_id)
           active == get_all_active(subscribers, tenant_id)
           sent_ids == get_sent_today_subscriber_ids(send_history, now, tenant_id)
           targets == SortedSeq(active \ sent_ids)
           called == [NoJob EXCEPT !.tenant_id = tenant_id,
                                   !.newsletter_type = "daily"]
           formatted == [called EXCEPT
                            !.formatter_input =
                                prepare_daily_send(collected_data, tenant_id)]
           returns(at, outcome) ==
               job' = [at EXCEPT !.pc = "returned", !.outcome = outcome]
       IN  IF ~is_configured THEN returns(called, "not_configured")
           ELSE IF DOMAIN cache = {} THEN returns(called, "no_data")
           ELSE IF ~renders THEN returns(formatted, "render_failed")
           ELSE IF active = {} THEN returns(formatted, "no_subscribers")
           ELSE IF targets = <<>> THEN returns(formatted, "nothing_to_send")
           ELSE job' = [formatted EXCEPT
                           !.pc = "first_batch",
                           !.targets = targets,
                           !.sendmail = [x \in Range(targets) |-> 0],
                           !.passes = [x \in Range(targets) |-> 0]]
    /\ UNCHANGED <<send_history, welcome>>
    /\ UnchangedBySend

\* mutant: the recording stops at the first failed result
RecordFirstBatchUntilFailure(t, tenant_id, targets, results, newsletter_type) ==
    LET failed == {i \in DOMAIN results : ~results[i].success}
        upto == IF failed = {} THEN Len(results) ELSE MinOf(failed) - 1
    IN  [i \in 1..upto |->
            SendHistoryRow(t, tenant_id, targets[i], results[i].success,
                           results[i].error_message, newsletter_type)]

\* the rows created for the results of the first batch, one per target
RecordFirstBatch(t, tenant_id, targets, results, newsletter_type) ==
    [i \in DOMAIN targets |->
        SendHistoryRow(t, tenant_id, targets[i], results[i].success,
                       results[i].error_message, newsletter_type)]

\* mutant: a row is created for every result of the retry
RecordRetryEveryResult(t, tenant_id, failed_items, retry_results, newsletter_type) ==
    [i \in DOMAIN failed_items |->
        SendHistoryRow(t, tenant_id, failed_items[i], retry_results[i].success,
                       retry_results[i].error_message, newsletter_type)]

\* the rows created for the results of the retry, one per success
RecordRetry(t, tenant_id, failed_items, retry_results, newsletter_type) ==
    LET ok(i) == retry_results[i].success
        row(i) == SendHistoryRow(t, tenant_id, failed_items[i], TRUE, "",
                                 newsletter_type)
        F[i \in 0..Len(failed_items)] ==
            IF i = 0 THEN <<>>
            ELSE IF ok(i) THEN Append(F[i - 1], row(i)) ELSE F[i - 1]
    IN  F[Len(failed_items)]

\* the subsequence of the targets whose result is a failure
FailedItems(targets, results) ==
    LET F[i \in 0..Len(targets)] ==
            IF i = 0 THEN <<>>
            ELSE IF results[i].success THEN F[i - 1]
                 ELSE Append(F[i - 1], targets[i])
    IN  F[Len(targets)]

SuccessCount(results) == Cardinality({i \in DOMAIN results : results[i].success})

\* the first batch and the recording of its results; without failed items
\* the job ends here and its session commits
run_send_job_first_batch(connected, script, db_ok) ==
    /\ job.pc = "first_batch"
    /\ LET results == send_batch_efficient(is_configured, job.targets,
                                           connected, script)
           calls == BatchSendmailCalls(is_configured, job.targets,
                                       connected, script)
           rows == RecordFirstBatch(now, job.tenant_id, job.targets, results,
                                    job.newsletter_type)
           failed_items == FailedItems(job.targets, results)
           sent == [job EXCEPT
                       !.results = results,
                       !.sendmail = [x \in Range(job.targets) |->
                           calls[CHOOSE i \in DOMAIN job.targets : job.targets[i] = x]],
                       !.passes = [x \in Range(job.targets) |-> 1]]
       IN  IF ~db_ok
           THEN /\ job' = [sent EXCEPT !.pc = "returned", !.outcome = "db_error"]
                /\ UNCHANGED send_history
           ELSE IF failed_items = <<>>
           THEN /\ job' = [sent EXCEPT !.pc = "returned", !.outcome = "done",
                                       !.session = rows,
                                       !.sent_count = SuccessCount(results)]
                /\ send_history' = send_history \o rows
           ELSE /\ job' = [sent EXCEPT !.pc = "retry", !.session = rows,
                                       !.failed_items = failed_items,
                                       !.sent_count = SuccessCount(results)]
                /\ UNCHANGED send_history
    /\ Len(send_history') <= MaxHistory
    /\ UNCHANGED welcome
    /\ UnchangedBySend

\* after time.sleep(5): the batch of the failed items, the recording of the
\* retries that succeeded, and the commit of the session
run_send_job_retry(connected, script, db_ok) ==
    /\ job.pc = "retry"
    /\ LET retry_results == send_batch_efficient(is_configured, job.failed_items,
                                                 connected, script)
           calls == BatchSendmailCalls(is_configured, job.failed_items,
                                       connected, script)
           rows == RecordRetry(now, job.tenant_id, job.failed_items,
                               retry_results, job.newsletter_type)
           pos(x) == CHOOSE i \in DOMAIN job.failed_items : job.failed_items[i] = x
           sent == [job EXCEPT
                       !.pc = "returned",
                       !.retry_results = retry_results,
                       !.sendmail = [x \in DOMAIN job.sendmail |->
                           IF x \in Range(job.failed_items)
                           THEN job.sendmail[x] + calls[pos(x)]
                           ELSE job.sendmail[x]],
                       !.passes = [x \in DOMAIN job.passes |->
                           IF x \in Range(job.failed_items)
                           THEN job.passes[x] + 1 ELSE job.passes[x]]]
       IN  IF ~db_ok
           THEN /\ job' = [sent EXCEPT !.outcome = "db_error", !.session = <<>>]
                /\ UNCHANGED send_history
           ELSE /\ job' = [sent EXCEPT
                              !.outcome = "done",
                              !.session = job.session \o rows,
                              !.sent_count = job.sent_count + SuccessCount(retry_results)]
                /\ send_history' = send_history \o job.session \o rows
    /\ Len(send_history') <= MaxHistory
    /\ UNCHANGED welcome
    /\ UnchangedBySend

\* the job has returned (or raised) and its thread is free again
run_send_job_return ==
    /\ job.pc = "returned"
    /\ job' = NoJob
    /\ UNCHANGED <<send_history, welcome>>
    /\ UnchangedBySend

----------------------------------------------------------------------------
(* send_welcome_newsletter(tenant_id, email), run on its own thread.  Any  *)
(* exception inside its session is caught: the session rolls back and the  *)
(* call returns False.                                                     *)

\* from the start of the call to sender.send: the early returns
send_welcome_newsletter_start(tenant_id, email, renders) ==
    /\ welcome.pc = "idle"
    /\ LET subscriber == get_active_by_email(subscribers, tenant_id, email)
           returns(value, why) ==
               welcome' = [NoWelcome EXCEPT !.pc = "returned",
                                            !.tenant_id = tenant_id,
                                            !.email = email,
                                            !.subscriber_id = subscriber,
                                            !.returned = value,
                                            !.outcome = why]
       IN  IF ~is_configured
           THEN welcome' = [NoWelcome EXCEPT !.pc = "returned",
                                             !.tenant_id = tenant_id,
                                             !.email = email,
                                             !.returned = "False",
                                             !.outcome = "not_configured"]
           ELSE IF subscriber = 0 THEN returns("False", "not_subscriber")
           ELSE IF already_sent_today(send_history, now, tenant_id, subscriber)
           THEN returns("True", "already_sent")
           ELSE IF DOMAIN get_all_latest(collected_data, tenant_id) = {}
           THEN returns("False", "no_data")
           ELSE IF ~renders THEN returns("False", "exception")
           ELSE welcome' = [NoWelcome EXCEPT !.pc = "sending",
                                             !.tenant_id = tenant_id,
                                             !.email = email,
                                             !.subscriber_id = subscriber]
    /\ UNCHANGED <<send_history, job>>
    /\ UnchangedBySend

\* sender.send, the recording of its result, the commit and the return
send_welcome_newsletter_send(accepted, db_ok) ==
    /\ welcome.pc = "sending"
    /\ LET result == send(is_configured, welcome.email, accepted)
           sent == [welcome EXCEPT !.pc = "returned", !.delivered = result.success,
                                   !.sendmail = 1, !.sent_at = now]
       IN  IF ~db_ok
           THEN /\ welcome' = [sent EXCEPT !.returned = "False",
                                           !.outcome = "exception"]
                /\ UNCHANGED send_history
           ELSE /\ welcome' = [sent EXCEPT
                                  !.returned = IF result.success THEN "True" ELSE "False",
                                  !.outcome = IF result.success THEN "sent" ELSE "send_failed"]
                /\ send_history' =
                      Append(send_history,
                             SendHistoryRow(now, welcome.tenant_id,
                                            welcome.subscriber_id, result.success,
                                            result.error_message, "daily"))
    /\ Len(send_history') <= MaxHistory
    /\ UNCHANGED job
    /\ UnchangedBySend

\* the call has returned and its thread has ended
send_welcome_newsletter_return ==
    /\ welcome.pc = "returned"
    /\ welcome' = NoWelcome
    /\ UNCHANGED <<send_history, job>>
    /\ UnchangedBySend

\* midnight (UTC) passes
NextDay ==
    /\ now \div MinutesPerDay < MaxDay
    /\ now' = TodayStart(now) + MinutesPerDay
    /\ UNCHANGED <<subscribers, email_verifications, next_verification_id,
                   next_token, last, send_history, collected_data,
                   collected_data_history, job, welcome, collect, http,
                   is_configured, main, wrong_codes, sessions>>

(* The sending side for one tenant, on a database that holds two active    *)
(* subscribers of the tenant, one who unsubscribed and one of another      *)
(* tenant, and a cache that is empty or filled; the sender configured or   *)
(* not.                                                                    *)
SendEmails == {"kim@x.io", "lee@x.io", "park@x.io"}
SendTenant == "teacher-hub"

SendSubscriber(tenant_id, email, token, is_active) ==
    [tenant_id |-> tenant_id, email |-> email, name |-> "",
     unsubscribe_token |-> token, is_active |-> is_active]

InitSend ==
    /\ subscribers = <<SendSubscriber(SendTenant, "kim@x.io", 1, TRUE),
                        SendSubscriber(SendTenant, "lee@x.io", 2, TRUE),
                        SendSubscriber(SendTenant, "park@x.io", 3, FALSE),
                        SendSubscriber("edufit", "choi@x.io", 4, TRUE)>>
    /\ email_verifications = {}
    /\ next_verification_id = 1
    /\ next_token = 5
    /\ now = 0
    /\ last = NoRequest
    /\ send_history = <<>>
    /\ \E filled \in {{}, {SendTenant}} :
          collected_data =
              [i \in 1..Cardinality(filled) |->
                  [tenant_id |-> SendTenant,
                   data_type |-> "daily_report",
                   data_json |-> JsonDumps([total |-> 1]),
                   collected_at |-> 0]]
    /\ collected_data_history = {}
    /\ job = NoJob
    /\ welcome = NoWelcome
    /\ collect = NoCollect
    /\ http = NoHttp
    /\ is_configured \in BOOLEAN
    /\ main = NoMain
    /\ wrong_codes = NoWrongCodes
    /\ sessions = NoSessions

(* Sending over several days: the server accepts or refuses each message. *)
SendScripts == {"sent", "refused"}

NextSend ==
    \/ \E renders \in BOOLEAN : run_send_job_start(SendTenant, renders)
    \/ \E db_ok \in BOOLEAN :
          \E script \in [DOMAIN job.targets -> SendScripts] :
              run_send_job_first_batch(TRUE, script, db_ok)
    \/ \E db_ok \in BOOLEAN :
          \E script \in [DOMAIN job.failed_items -> SendScripts] :
              run_send_job_retry(TRUE, script, db_ok)
    \/ run_send_job_return
    \/ \E e \in SendEmails, renders \in BOOLEAN :
          send_welcome_newsletter_start(SendTenant, e, renders)
    \/ \E accepted \in BOOLEAN, db_ok \in BOOLEAN :
          send_welcome_newsletter_send(accepted, db_ok)
    \/ send_welcome_newsletter_return
    \/ NextDay

SpecSend == InitSend /\ [][NextSend]_vars

(* Sending within one day against a server that may also refuse the       *)
(* connection or drop it in the middle of a batch.                         *)
NextSmtp ==
    \/ \E renders \in BOOLEAN : run_send_job_start(SendTenant, renders)
    \/ \E connected \in BOOLEAN, db_ok \in BOOLEAN :
          \E script \in [DOMAIN job.targets -> SmtpScripts] :
              run_send_job_first_batch(connected, script, db_ok)
    \/ \E connected \in BOOLEAN, db_ok \in BOOLEAN :
          \E script \in [DOMAIN job.failed_items -> SmtpScripts] :
              run_send_job_retry(connected, script, db_ok)
    \/ run_send_job_return

SpecSmtp == InitSend /\ [][NextSmtp]_vars

----------------------------------------------------------------------------
(* retry_async and the collectors' _get.  One upstream request either      *)
(* returns a response or raises (connection error, timeout, HTTP status).  *)

max_retries_default == 3
base_delay_default == 2
MaxRetriesArg == 4
MaxBaseDelayArg == 2

Collectors == {"TeacherHub", "EduFit", "AllergyInsight", "AcademyInsight"}
Paths == {"/reports/daily", "/summary", "/weekly/current"}

\* whether the collector's _get wraps its request in retry_async
UsesRetryAsync(collector) == collector \in {"TeacherHub", "EduFit", "AllergyInsight"}

UnchangedByHttp ==
    UNCHANGED <<subscribers, email_verifications, next_verification_id,
                next_token, now, last, send_history, collected_data,
                collected_data_history, job, welcome, collect, is_configured,
                main, wrong_codes, sessions>>

\* a collector method calls self._get(path)
collector_get(collector, path) ==
    /\ http.pc = "idle"
    /\ http' = [NoHttp EXCEPT !.pc = "requesting", !.caller = collector,
                              !.path = path,
                              !.retry = UsesRetryAsync(collector),
                              !.max_retries = max_retries_default,
                              !.base_delay = base_delay_default]
    /\ UnchangedByHttp

\* retry_async(coro_func, max_retries, base_delay) called directly
retry_async(max_retries, base_delay) ==
    /\ http.pc = "idle"
    /\ http' = [NoHttp EXCEPT !.pc = "requesting", !.caller = "retry_async",
                              !.retry = TRUE,
                              !.max_retries = max_retries,
                              !.base_delay = base_delay]
    /\ UnchangedByHttp

\* mutant: the last turn sleeps as well before it re-raises
retry_async_attempt_sleeps_last(ok) ==
    /\ http.pc = "requesting"
    /\ http.retry
    /\ http.attempt < http.max_retries
    /\ http' =
          IF ok
          THEN [http EXCEPT !.pc = "returned", !.calls = @ + 1]
          ELSE IF http.attempt = http.max_retries - 1
          THEN [http EXCEPT !.pc = "raised", !.calls = @ + 1,
                            !.slept = Append(@, http.base_delay * (2 ^ http.attempt))]
          ELSE [http EXCEPT !.calls = @ + 1,
                            !.slept = Append(@, http.base_delay * (2 ^ http.attempt)),
                            !.attempt = @ + 1]
    /\ UnchangedByHttp

\* one turn of the loop of retry_async: the call, and on an exception the
\* re-raise in the last turn or the sleep
retry_async_attempt(ok) ==
    /\ http.pc = "requesting"
    /\ http.retry
    /\ http.attempt < http.max_retries
    /\ http' =
          IF ok
          THEN [http EXCEPT !.pc = "returned", !.calls = @ + 1]
          ELSE IF http.attempt = http.max_retries - 1
          THEN [http EXCEPT !.pc = "raised", !.calls = @ + 1]
          ELSE [http EXCEPT !.calls = @ + 1,
                            !.slept = Append(@, http.base_delay * (2 ^ http.attempt)),
                            !.attempt = @ + 1]
    /\ UnchangedByHttp

\* the single request of a _get that does not use retry_async
plain_request(ok) ==
    /\ http.pc = "requesting"
    /\ ~http.retry
    /\ http' = [http EXCEPT !.pc = IF ok THEN "returned" ELSE "raised",
                            !.calls = @ + 1]
    /\ UnchangedByHttp

\* the caller has the response, or has caught the exception and treats the
\* endpoint as failed
http_done ==
    /\ http.pc \in {"returned", "raised"}
    /\ http' = NoHttp
    /\ UnchangedByHttp

NextRetry ==
    \/ \E c \in Collectors, p \in Paths : collector_get(c, p)
    \/ \E m \in 1..MaxRetriesArg, d \in 1..MaxBaseDelayArg : retry_async(m, d)
    \/ \E ok \in BOOLEAN : retry_async_attempt(ok)
    \/ \E ok \in BOOLEAN : plain_request(ok)
    \/ http_done

SpecRetry == Init /\ [][NextRetry]_vars

\* the awaited call and the awaited sleep complete, and the loop of
\* retry_async goes on to its next turn
SpecRetryFair ==
    SpecRetry /\ WF_vars(\E ok \in BOOLEAN : retry_async_attempt(ok))

----------------------------------------------------------------------------
(* run_collect_job(tenant_id, newsletter_type).  The collection runs       *)
(* first; its result is written in one session, data type by data type,    *)
(* and committed when the with block ends.  Every exception is caught by   *)
(* the job's except clause after get_session() has rolled the session      *)
(* back.                                                                   *)

CollectTenant == "teacher-hub"
CollectTypes == {"daily", "weekly"}

\* the order in which the collectors fill their result
TypeOrder == <<"daily_report", "weekly_summary">>

\* f"{newsletter_type}_{data_type}"
PrefixedType(newsletter_type, data_type) ==
    IF newsletter_type = "monthly"
    THEN IF data_type = "daily_report" THEN "monthly_daily_report"
         ELSE "monthly_weekly_summary"
    ELSE IF data_type = "daily_report" THEN "weekly_daily_report"
         ELSE "weekly_weekly_summary"

StoredTypes == DataTypes \cup {PrefixedType("weekly", dt) : dt \in DataTypes}

\* what a collection can return: a dict with some of the data types
Payloads == UNION {[S -> DataValues] : S \in SUBSET DataTypes}

\* the items of a payload in the collector's order
Items(payload) == SelectSeq(TypeOrder, LAMBDA dt : dt \in DOMAIN payload)

\* mutant: the flushed writes survive the exception
RollbackKeepsWrites(committed, session) == session

\* get_session(): an exception leaving the block rolls the session back
Rollback(committed, session) == committed

UnchangedByCollect ==
    UNCHANGED <<subscribers, email_verifications, next_verification_id,
                next_token, now, last, send_history, job, welcome, http,
                is_configured, main, wrong_codes, sessions>>

\* asyncio.run(tenant.collect_data()) or collect_summary_data, and the
\* early return on an empty result
run_collect_job_collect(tenant_id, newsletter_type, raised, payload) ==
    /\ collect.pc = "idle"
    /\ LET call == [NoCollect EXCEPT !.tenant_id = tenant_id,
                                     !.newsletter_type = newsletter_type]
       IN  collect' =
              IF raised
              THEN [call EXCEPT !.pc = "returned", !.outcome = "collect_error"]
              ELSE IF DOMAIN payload = {}
              THEN [call EXCEPT !.pc = "returned", !.outcome = "empty"]
              ELSE [call EXCEPT !.pc = "writing", !.collected = payload,
                                !.todo = Items(payload),
                                !.session_data = collected_data,
                                !.session_history = collected_data_history]
    /\ UNCHANGED <<collected_data, collected_data_history>>
    /\ UnchangedByCollect

\* one turn of the loop over collected.items(): the upsert and, for daily,
\* save_to_history; a database error ends the job
run_collect_job_write(db_ok) ==
    /\ collect.pc = "writing"
    /\ collect.todo # <<>>
    /\ LET data_type == Head(collect.todo)
           data == collect.collected[data_type]
           t == collect.tenant_id
       IN  IF ~db_ok
           THEN /\ collect' = [collect EXCEPT !.pc = "returned",
                                              !.outcome = "db_error"]
                /\ collected_data' = Rollback(collected_data, collect.session_data)
                /\ collected_data_history' =
                      Rollback(collected_data_history, collect.session_history)
           ELSE /\ collect' =
                      IF collect.newsletter_type = "daily"
                      THEN [collect EXCEPT
                               !.todo = Tail(@),
                               !.session_data = upsert(@, now, t, data_type, data),
                               !.session_history =
                                   save_to_history(@, now, t, data_type, data)]
                      ELSE [collect EXCEPT
                               !.todo = Tail(@),
                               !.session_data =
                                   upsert(@, now, t,
                                          PrefixedType(collect.newsletter_type,
                                                       data_type),
                                          data)]
                /\ UNCHANGED <<collected_data, collected_data_history>>
    /\ UnchangedByCollect

\* the end of the with block: session.commit()
run_collect_job_commit(db_ok) ==
    /\ collect.pc = "writing"
    /\ collect.todo = <<>>
    /\ IF db_ok
       THEN /\ collect' = [collect EXCEPT !.pc = "returned", !.outcome = "done"]
            /\ collected_data' = collect.session_data
            /\ collected_data_history' = collect.session_history
       ELSE /\ collect' = [collect EXCEPT !.pc = "returned", !.outcome = "db_error"]
            /\ collected_data' = Rollback(collected_data, collect.session_data)
            /\ collected_data_history' =
                  Rollback(collected_data_history, collect.session_history)
    /\ UnchangedByCollect

\* update_health("collect") and the return
run_collect_job_return ==
    /\ collect.pc = "returned"
    /\ collect' = NoCollect
    /\ UNCHANGED <<collected_data, collected_data_history>>
    /\ UnchangedByCollect

(* Collecting for one tenant, next to a cached row of another tenant. *)
InitCollect ==
    /\ subscribers = <<>>
    /\ email_verifications = {}
    /\ next_verification_id = 1
    /\ next_token = 1
    /\ now = 0
    /\ last = NoRequest
    /\ send_history = <<>>
    /\ collected_data = <<[tenant_id |-> "edufit", data_type |-> "daily_report",
                           data_json |-> JsonDumps([total |-> 1]),
                           collected_at |-> 0]>>
    /\ collected_data_history = {}
    /\ job = NoJob
    /\ welcome = NoWelcome
    /\ collect = NoCollect
    /\ http = NoHttp
    /\ is_configured = TRUE
    /\ main = NoMain
    /\ wrong_codes = NoWrongCodes
    /\ sessions = NoSessions

NextCollect ==
    \/ \E nt \in CollectTypes, raised \in BOOLEAN, payload \in Payloads :
          run_collect_job_collect(CollectTenant, nt, raised, payload)
    \/ \E db_ok \in BOOLEAN : run_collect_job_write(db_ok)
    \/ \E db_ok \in BOOLEAN : run_collect_job_commit(db_ok)
    \/ run_collect_job_return

SpecCollect == InitCollect /\ [][NextCollect]_vars

----------------------------------------------------------------------------
(* C1 -- tenant isolation of subscribers.  In every reachable state no     *)
(* tenant-scoped subscriber query called with tenant B (get_by_email,      *)
(* get_active_by_email, get_all_active, count_by_tenant,                   *)
(* get_all_by_tenant) returns or counts a row whose tenant_id differs from *)
(* B, and a subscriber_toggle request under tenant B leaves every row of   *)
(* another tenant as it was.                                               *)

RowsOf(subs, tenant_id) == {i \in DOMAIN subs : subs[i].tenant_id = tenant_id}

QueryIsolation ==
    \A b \in TenantIds :
      LET foreign == (DOMAIN subscribers) \ RowsOf(subscribers, b)
          own == RowsOf(subscribers, b)
      IN  /\ \A e \in Emails :
                /\ get_by_email(subscribers, b, e) \notin foreign
                /\ get_active_by_email(subscribers, b, e) \notin foreign
          /\ get_all_active(subscribers, b) \cap foreign = {}
          /\ \A f \in {"all", "active", "inactive"} :
                get_all_by_tenant(subscribers, b, f) \cap foreign = {}
          /\ count_by_tenant(subscribers, b, FALSE) = Cardinality(own)
          /\ count_by_tenant(subscribers, b, TRUE) =
                Cardinality({i \in own : subscribers[i].is_active})

ToggleIsolation ==
    (last'.op = "subscriber_toggle")
        => \A i \in DOMAIN subscribers :
              subscribers[i].tenant_id # last'.tenant_id
                 => /\ i \in DOMAIN subscribers'
                    /\ subscribers'[i] = subscribers[i]

\* C1: tenant-scoped queries never return another tenant's row, and a
\* toggle under one tenant never changes another tenant's row
TenantIsolation == [](QueryIsolation) /\ [][ToggleIsolation]_vars

\* the same address is an active subscriber of both tenants, and a toggle
\* of an existing row under the other tenant's URL has just been refused
TenantIsolationWitness ==
    /\ \A t \in TenantIds : get_active_by_email(subscribers, t, "kim@x.io") # 0
    /\ last.op = "subscriber_toggle"
    /\ ~last.ok
    /\ last.subscriber_id \in DOMAIN subscribers
    /\ subscribers[last.subscriber_id].tenant_id # last.tenant_id

----------------------------------------------------------------------------
(* C3 -- a subscriber is created or becomes active through the manager     *)
(* only in a verify_subscribe call that succeeds, made with the code of an *)
(* existing verification that is not expired and whose attempts are below  *)
(* the limit; request_subscribe never changes a subscriber row; a          *)
(* verify_subscribe call that fails changes no subscriber row.             *)

Activated(i) ==
    /\ i \in DOMAIN subscribers'
    /\ subscribers'[i].is_active
    /\ (i \in DOMAIN subscribers => ~subscribers[i].is_active)

ManagerOps ==
    {"request_subscribe", "verify_subscribe", "request_unsubscribe",
     "verify_unsubscribe", "unsubscribe_by_token"}

ActivationStep ==
    /\ (last'.op \in ManagerOps /\ \E i \in DOMAIN subscribers' : Activated(i))
          => /\ last'.op = "verify_subscribe"
             /\ last'.ok
             /\ last'.code_ok
             /\ \E v \in email_verifications :
                   /\ v.id = last'.verification_id
                   /\ now <= v.expires_at
                   /\ v.attempts < max_verification_attempts
    /\ (last'.op = "request_subscribe") => subscribers' = subscribers
    /\ (last'.op = "verify_subscribe" /\ ~last'.ok)
          => subscribers' = subscribers

\* C3: only a successful verify_subscribe, with the right code of a live
\* verification, creates or activates a subscriber
ActivationOnlyByVerify == [][ActivationStep]_vars

\* a subscriber was activated by a verification, and a later
\* verify_subscribe with the right code has just failed
ActivationOnlyByVerifyWitness ==
    /\ \E i \in DOMAIN subscribers : subscribers[i].is_active
    /\ \E v \in email_verifications : v.is_verified
    /\ last.op = "verify_subscribe"
    /\ ~last.ok
    /\ last.code_ok

----------------------------------------------------------------------------
(* C4 -- once now is past a verification's expires_at, a verify_subscribe  *)
(* or verify_unsubscribe call addressing it fails, whatever the code, and  *)
(* changes no subscriber row and no verification row (is_verified and      *)
(* attempts included).                                                     *)

ExpiredStep ==
    (/\ now' = now
     /\ last'.op \in {"verify_subscribe", "verify_unsubscribe"}
     /\ \E v \in email_verifications :
           v.id = last'.verification_id /\ now > v.expires_at)
        => /\ ~last'.ok
           /\ subscribers' = subscribers
           /\ email_verifications' = email_verifications

\* C4: a verify call on an expired verification fails and changes nothing
ExpiredNeverVerifies == [][ExpiredStep]_vars

\* verify_unsubscribe was called with the right code on an expired
\* verification of an active subscriber, and failed as expired
ExpiredNeverVerifiesWitness ==
    /\ last.op = "verify_unsubscribe"
    /\ last.msg = "expired"
    /\ last.code_ok
    /\ \E i \in DOMAIN subscribers : subscribers[i].is_active

----------------------------------------------------------------------------
(* C2 -- resending within the same day is a no-op.  When a daily           *)
(* run_send_job starts, no subscriber with a committed success row of the  *)
(* same UTC day is among its targets; the job calls sendmail only for its  *)
(* targets and adds send_history rows only for its targets; and when every *)
(* active subscriber has such a row the job returns at once, having sent   *)
(* and written nothing.                                                    *)

\* subscriber s of the tenant has a committed success row dated on the day of t
SuccessOnDayOf(hist, t, tenant_id, s) ==
    \E i \in DOMAIN hist :
        /\ hist[i].tenant_id = tenant_id
        /\ hist[i].subscriber_id = s
        /\ hist[i].is_success
        /\ hist[i].sent_at \div MinutesPerDay = t \div MinutesPerDay

JobStarts == job.pc = "idle" /\ job'.pc # "idle"

NewRows == {send_history'[i] : i \in (Len(send_history) + 1)..Len(send_history')}

ResendStep ==
    /\ JobStarts =>
          LET sent == {x \in DOMAIN subscribers :
                          SuccessOnDayOf(send_history, now, job'.tenant_id, x)}
              active == {x \in DOMAIN subscribers :
                            /\ subscribers[x].tenant_id = job'.tenant_id
                            /\ subscribers[x].is_active}
          IN  /\ Range(job'.targets) \cap sent = {}
              /\ send_history' = send_history
              /\ (active # {} /\ active \subseteq sent)
                    => /\ job'.pc = "returned"
                       /\ job'.targets = <<>>
                       /\ job'.sendmail = <<>>
    /\ (job.pc \in {"first_batch", "retry"} /\ job' # job) =>
          /\ job'.targets = job.targets
          /\ DOMAIN job'.sendmail = Range(job.targets)
          /\ \A r \in NewRows : r.subscriber_id \in Range(job.targets)

\* C2: a daily send job that starts after a success was recorded for a
\* subscriber on the same day neither mails that subscriber nor writes a
\* row for them
ResendIsNoOp == [][ResendStep]_vars

\* the first subscriber has a success row of today, the second has none, and
\* a job has started with the second as its only target
ResendIsNoOpWitness ==
    /\ job.pc = "first_batch"
    /\ job.targets = <<2>>
    /\ SuccessOnDayOf(send_history, now, job.tenant_id, 1)
    /\ subscribers[1].is_active

----------------------------------------------------------------------------
(* C5 -- failed sends are recorded.  In the first batch of run_send_job    *)
(* every target is handed to the sender whatever the results of the        *)
(* others, and, unless a database error aborts the job, one row per        *)
(* target is written with the result's is_success and, for a failure, its  *)
(* error message; these rows are committed when the job ends.  A welcome   *)
(* mail that fails is likewise recorded as a failed row with its message.  *)

FirstBatchRecorded(j, rows) ==
    /\ Len(rows) = Len(j.targets)
    /\ \A i \in DOMAIN j.targets :
          /\ rows[i].tenant_id = j.tenant_id
          /\ rows[i].subscriber_id = j.targets[i]
          /\ rows[i].is_success = j.results[i].success
          /\ ~j.results[i].success
                => /\ rows[i].error_message = j.results[i].error_message
                   /\ rows[i].error_message # ""

FailureRecordedStep ==
    /\ (job.pc = "first_batch" /\ job'.pc # "first_batch") =>
          /\ Len(job'.results) = Len(job.targets)
          /\ \A x \in Range(job.targets) : job'.passes[x] = 1
          /\ job'.outcome # "db_error" => FirstBatchRecorded(job', job'.session)
          /\ job'.outcome = "done" => send_history' = send_history \o job'.session
    /\ (job.pc = "retry" /\ job'.pc = "returned" /\ job'.outcome = "done") =>
          /\ FirstBatchRecorded(job', SubSeq(job'.session, 1, Len(job.targets)))
          /\ Len(send_history') = Len(send_history) + Len(job'.session)
          /\ \A i \in DOMAIN job'.session :
                send_history'[Len(send_history) + i] = job'.session[i]
    /\ (/\ welcome.pc = "sending"
        /\ welcome'.pc = "returned"
        /\ ~welcome'.delivered
        /\ welcome'.outcome # "exception") =>
          /\ Len(send_history') = Len(send_history) + 1
          /\ LET r == send_history'[Len(send_history')]
             IN  /\ r.subscriber_id = welcome.subscriber_id
                 /\ r.tenant_id = welcome.tenant_id
                 /\ ~r.is_success
                 /\ r.error_message # ""

\* C5: a failed send of the first batch or of the welcome mail gets a
\* failed row with its error message, and does not stop the other targets
FailedSendsRecorded == [][FailureRecordedStep]_vars

\* a job has ended whose first target failed in the first batch while the
\* second was sent, and the failed row of the first is in send_history
FailedSendsRecordedWitness ==
    /\ job.pc = "returned"
    /\ job.outcome = "done"
    /\ Len(job.targets) = 2
    /\ ~job.results[1].success
    /\ job.results[2].success
    /\ \E i \in DOMAIN send_history :
          /\ send_history[i].subscriber_id = job.targets[1]
          /\ ~send_history[i].is_success
          /\ send_history[i].error_message = "refused"

----------------------------------------------------------------------------
(* C6 -- how often run_send_job tries a message that keeps failing.  A     *)
(* target is handed to send_batch_efficient in the first batch and, if its *)
(* result was a failure, once more in the retry batch, never a third time; *)
(* in a batch sendmail is called for it at most twice (the second time     *)
(* only after a disconnect and a reconnect) and not at all when the        *)
(* connection cannot be opened.  A target the job gives up on has been in  *)
(* exactly two batches, with between 0 and 4 sendmail calls.               *)

\* the job has ended and target x failed in the first batch and in the retry
GaveUp(x) ==
    /\ job.pc = "returned"
    /\ job.outcome = "done"
    /\ \E i \in DOMAIN job.failed_items :
          job.failed_items[i] = x /\ ~job.retry_results[i].success

\* C6 as the specification states it: a message that keeps failing is
\* attempted 3 times in total
SmtpThreeAttempts ==
    \A x \in DOMAIN job.sendmail : GaveUp(x) => job.sendmail[x] = 3

\* C6, as the code has it: two batches per failing message, at most two
\* sendmail calls in each
SmtpTwoBatches ==
    /\ \A x \in DOMAIN job.passes :
          /\ job.passes[x] <= 2
          /\ job.sendmail[x] <= 2 * job.passes[x]
          /\ job.passes[x] = 2 <=> x \in Range(job.failed_items) /\ job.pc = "returned"
    /\ \A x \in DOMAIN job.sendmail :
          GaveUp(x) => job.passes[x] = 2 /\ job.sendmail[x] \in 0..4

\* the job gave up on a target after exactly two sendmail calls, one in
\* each batch, both refused
SmtpTwoBatchesWitness ==
    \E x \in DOMAIN job.sendmail :
        /\ GaveUp(x)
        /\ job.sendmail[x] = 2
        /\ \E i \in DOMAIN job.targets :
              job.targets[i] = x /\ job.results[i].error_message = "refused"
        /\ \E i \in DOMAIN job.failed_items :
              job.failed_items[i] = x /\ job.retry_results[i].error_message = "refused"

----------------------------------------------------------------------------
(* C10 -- the welcome newsletter.  send_welcome_newsletter returns False   *)
(* without sending when the email is not an active subscriber of the       *)
(* tenant or the tenant has no collected data; it returns True without     *)
(* sending when the subscriber has a success row of today, and only then;  *)
(* when it returns True after sending, a success row for the subscriber    *)
(* dated now has been committed; and a daily send job of the tenant that   *)
(* starts later on that day does not target the subscriber.                *)

WelcomeStarts == welcome.pc = "idle" /\ welcome'.pc # "idle"

WelcomeStep ==
    /\ WelcomeStarts =>
          LET t == welcome'.tenant_id
              e == welcome'.email
              subs == {x \in DOMAIN subscribers :
                          /\ subscribers[x].tenant_id = t
                          /\ subscribers[x].email = e
                          /\ subscribers[x].is_active}
              cached == \E i \in DOMAIN collected_data : collected_data[i].tenant_id = t
              sent_today == \E x \in subs : SuccessOnDayOf(send_history, now, t, x)
          IN  /\ send_history' = send_history
              /\ (subs = {} \/ ~cached)
                    => /\ welcome'.pc = "returned"
                       /\ welcome'.returned = "False"
                       /\ welcome'.sendmail = 0
              /\ sent_today
                    => /\ welcome'.pc = "returned"
                       /\ welcome'.returned = "True"
                       /\ welcome'.sendmail = 0
              /\ welcome'.returned = "True" => sent_today
              /\ welcome'.pc = "sending" => welcome'.subscriber_id \in subs
    /\ (welcome.pc = "sending" /\ welcome'.pc = "returned") =>
          /\ welcome'.returned = "True" =>
                /\ welcome'.delivered
                /\ send_history' =
                      Append(send_history,
                             [tenant_id |-> welcome.tenant_id,
                              subscriber_id |-> welcome.subscriber_id,
                              newsletter_type |-> "daily",
                              is_success |-> TRUE,
                              error_message |-> "",
                              sent_at |-> now])
          /\ welcome'.returned = "False" =>
                ~welcome'.delivered \/ welcome'.outcome = "exception"
    /\ (/\ JobStarts
        /\ welcome.pc = "returned"
        /\ welcome.returned = "True"
        /\ welcome.tenant_id = job'.tenant_id
        /\ welcome.sent_at \div MinutesPerDay = now \div MinutesPerDay
        /\ welcome.outcome = "sent")
          => welcome.subscriber_id \notin Range(job'.targets)

\* what a welcome call that returned True after sending has recorded
WelcomeRecorded ==
    (welcome.pc = "returned" /\ welcome.outcome = "sent")
        => /\ welcome.returned = "True"
           /\ SuccessOnDayOf(send_history, welcome.sent_at, welcome.tenant_id,
                             welcome.subscriber_id)

\* C10: the welcome call's return value and sending follow its contract,
\* and its success row keeps the daily job of that day from sending again
WelcomeContract == [](WelcomeRecorded) /\ [][WelcomeStep]_vars

\* a welcome mail was sent to the first subscriber and recorded, and the
\* daily job that started afterwards on that day targets only the second
WelcomeContractWitness ==
    /\ welcome.pc = "returned"
    /\ welcome.outcome = "sent"
    /\ welcome.subscriber_id = 1
    /\ job.pc = "first_batch"
    /\ job.targets = <<2>>
    /\ Len(send_history) = 1
    /\ welcome.sent_at \div MinutesPerDay = now \div MinutesPerDay

----------------------------------------------------------------------------
(* C7 -- HTTP calls are retried with 3 attempts.  As the specification     *)
(* states it: a collector's _get that ends by raising, so that the         *)
(* collector treats the endpoint as failed, has made 3 requests, with the  *)
(* exponential backoff (2s, 4s) between them - for every collector.        *)

\* C7: every collector gives up on an endpoint only after 3 requests with
\* exponential backoff
HttpThreeAttempts ==
    (http.pc = "raised" /\ http.caller \in Collectors)
        => http.calls = 3 /\ http.slept = <<2, 4>>

----------------------------------------------------------------------------
(* C8 -- run_collect_job is all-or-nothing and never propagates an error.  *)
(* Whether the collection raises, returns nothing, or a database write or  *)
(* the commit raises, the job ends by returning, and every committed row   *)
(* of collected_data (hence what get_all_latest gives the next send) is    *)
(* as it was before the job; only a job that ends without any error        *)
(* changes the cache.                                                      *)

CollectJobStep ==
    /\ (collect' # collect /\ collect'.outcome # "done")
          => /\ collected_data' = collected_data
             /\ collected_data_history' = collected_data_history
             /\ \A t \in TenantIds :
                   get_all_latest(collected_data', t) = get_all_latest(collected_data, t)
    /\ (collect.pc \in {"idle", "writing"} /\ collect' # collect)
          => collect'.pc \in {"writing", "returned"}
    /\ (collect.pc = "idle" /\ collect' # collect /\ collect'.pc = "writing")
          => DOMAIN collect'.collected # {}

----------------------------------------------------------------------------
(* C9 -- the cache is overwrite-latest.  In the committed table and in the *)
(* view of a writing session there is at most one collected_data row per   *)
(* (tenant_id, data_type); right after an upsert both get_latest and       *)
(* get_all_latest return for that pair exactly the data upserted, and      *)
(* every other pair keeps its row.                                         *)

OnePerPair(cd) ==
    \A t \in TenantIds, dt \in StoredTypes :
        Cardinality(CollectedRows(cd, t, dt)) <= 1

UpsertStep ==
    (collect.pc = "writing" /\ collect.todo # <<>> /\ collect'.pc = "writing") =>
        LET t == collect.tenant_id
            from == Head(collect.todo)
            dt == IF collect.newsletter_type = "daily" THEN from
                  ELSE PrefixedType(collect.newsletter_type, from)
            data == collect.collected[from]
            before == collect.session_data
            after == collect'.session_data
        IN  /\ get_latest(after, t, dt) = {data}
            /\ dt \in DOMAIN get_all_latest(after, t)
            /\ get_all_latest(after, t)[dt] = data
            /\ \A t2 \in TenantIds, dt2 \in StoredTypes :
                  <<t2, dt2>> # <<t, dt>>
                     => get_latest(after, t2, dt2) = get_latest(before, t2, dt2)
            /\ Len(after) = Len(before) + (IF CollectedRows(before, t, dt) = {} THEN 1 ELSE 0)

\* C9: one row per (tenant, data type), holding what was upserted last
OverwriteLatest ==
    /\ [](OnePerPair(collected_data) /\ OnePerPair(collect.session_data))
    /\ [][UpsertStep]_vars

\* a writing session has overwritten the row of a pair: same number of rows
\* as the committed table, different data for one data type
OverwriteLatestWitness ==
    /\ collect.pc = "writing"
    /\ Len(collect.session_data) = Len(collected_data)
    /\ \E i \in DOMAIN collected_data :
          /\ collected_data[i].tenant_id = collect.tenant_id
          /\ collect.session_data[i].data_type = collected_data[i].data_type
          /\ collect.session_data[i].data_json # collected_data[i].data_json

----------------------------------------------------------------------------
(* main(): --collect-only, --send-only and --run-once call the jobs from   *)
(* the main thread, in for loops over target_ids; a call returns before    *)
(* the loop goes on.  target_ids is the tenant of --tenant, or             *)
(* registry.get_active_ids(): the tenants in the order register_tenants()  *)
(* registered them.                                                        *)

MainModes == {"run_once", "collect_only", "send_only"}

\* registry.get_active_ids()
ActiveIds == <<"teacher-hub", "edufit">>

\* the values of --tenant: absent (""), a registered tenant, or unknown
TenantArgs == {"", "teacher-hub", "edufit", "academy-insight"}

\* mutant: --run-once sends to a tenant right after collecting for it
NextCallPerTenant(mode, target_ids, pc, i) ==
    IF mode = "run_once"
    THEN IF pc = "collect" THEN [pc |-> "send", i |-> i]
         ELSE IF i < Len(target_ids) THEN [pc |-> "collect", i |-> i + 1]
         ELSE [pc |-> "exit", i |-> i]
    ELSE IF i < Len(target_ids) THEN [pc |-> pc, i |-> i + 1]
    ELSE [pc |-> "exit", i |-> i]

\* where main() goes on when the job it called has returned: the next
\* tenant of the loop, the second loop of --run-once, or the end
NextCall(mode, target_ids, pc, i) ==
    IF i < Len(target_ids) THEN [pc |-> pc, i |-> i + 1]
    ELSE IF mode = "run_once" /\ pc = "collect" THEN [pc |-> "send", i |-> 1]
    ELSE [pc |-> "exit", i |-> i]

UnchangedByMain ==
    UNCHANGED <<subscribers, email_verifications, next_verification_id,
                next_token, now, last, send_history, collected_data,
                collected_data_history, welcome, http, is_configured,
                wrong_codes, sessions>>

\* the command line is parsed and the target tenants are decided; an
\* unknown --tenant ends the process
main_start(mode, tenant_arg) ==
    /\ main.pc = "idle"
    /\ main' =
          IF tenant_arg # "" /\ tenant_arg \notin Range(ActiveIds)
          THEN [NoMain EXCEPT !.pc = "exit", !.mode = mode]
          ELSE [NoMain EXCEPT
                   !.pc = IF mode = "send_only" THEN "send" ELSE "collect",
                   !.mode = mode,
                   !.target_ids = IF tenant_arg = "" THEN ActiveIds
                                  ELSE <<tenant_arg>>,
                   !.i = 1]
    /\ UNCHANGED <<collect, job>>
    /\ UnchangedByMain

\* run_collect_job(tid) is called
main_run_collect_job(raised, payload) ==
    /\ main.pc = "collect"
    /\ run_collect_job_collect(main.target_ids[main.i], "daily", raised, payload)

\* run_collect_job(tid) has returned: the loop goes on
main_collect_returned ==
    /\ main.pc = "collect"
    /\ collect.pc = "returned"
    /\ collect' = NoCollect
    /\ LET to == NextCall(main.mode, main.target_ids, main.pc, main.i)
       IN  main' = [main EXCEPT
                       !.pc = to.pc, !.i = to.i,
                       !.returned = Append(@, <<"collect", collect.tenant_id>>)]
    /\ UNCHANGED job
    /\ UnchangedByMain

\* run_send_job(tid) is called
main_run_send_job(renders) ==
    /\ main.pc = "send"
    /\ run_send_job_start(main.target_ids[main.i], renders)

\* run_send_job(tid) has returned and the loop goes on, or it has raised
\* and the exception ends main()
main_send_returned ==
    /\ main.pc = "send"
    /\ job.pc = "returned"
    /\ job' = NoJob
    /\ LET to == NextCall(main.mode, main.target_ids, main.pc, main.i)
       IN  main' = IF job.outcome = "db_error"
                   THEN [main EXCEPT !.pc = "exit"]
                   ELSE [main EXCEPT
                            !.pc = to.pc, !.i = to.i,
                            !.returned = Append(@, <<"send", job.tenant_id>>)]
    /\ UNCHANGED collect
    /\ UnchangedByMain

(* One run of main() on a database with a subscriber of each tenant and   *)
(* an empty cache.                                                         *)
InitMain ==
    /\ subscribers = <<SendSubscriber("teacher-hub", "kim@x.io", 1, TRUE),
                        SendSubscriber("edufit", "choi@x.io", 2, TRUE)>>
    /\ email_verifications = {}
    /\ next_verification_id = 1
    /\ next_token = 3
    /\ now = 0
    /\ last = NoRequest
    /\ send_history = <<>>
    /\ collected_data = <<>>
    /\ collected_data_history = {}
    /\ job = NoJob
    /\ welcome = NoWelcome
    /\ collect = NoCollect
    /\ http = NoHttp
    /\ is_configured = TRUE
    /\ main = NoMain
    /\ wrong_codes = NoWrongCodes
    /\ sessions = NoSessions

NextMain ==
    \/ \E mode \in MainModes, tenant_arg \in TenantArgs :
          main_start(mode, tenant_arg)
    \/ \E raised \in BOOLEAN, payload \in Payloads :
          main_run_collect_job(raised, payload)
    \/ \E db_ok \in BOOLEAN : run_collect_job_write(db_ok)
    \/ \E db_ok \in BOOLEAN : run_collect_job_commit(db_ok)
    \/ main_collect_returned
    \/ \E renders \in BOOLEAN : main_run_send_job(renders)
    \/ \E db_ok \in BOOLEAN :
          \E script \in [DOMAIN job.targets -> SendScripts] :
              run_send_job_first_batch(TRUE, script, db_ok)
    \/ \E db_ok \in BOOLEAN :
          \E script \in [DOMAIN job.failed_items -> SendScripts] :
              run_send_job_retry(TRUE, script, db_ok)
    \/ main_send_returned

SpecMain == InitMain /\ [][NextMain]_vars

----------------------------------------------------------------------------
(* C11 -- the jobs that main() calls run one after the other.  In every    *)
(* reachable state of a run of main() at most one job is executing, the    *)
(* job executing is the one the order of target_ids calls for, the jobs    *)
(* returned so far are the first ones of that order, and in --run-once     *)
(* mode a send job executes only when the collect job of every target      *)
(* tenant has returned.                                                    *)

\* the jobs of a run in the order the mode and target_ids call for
CallOrder(mode, target_ids) ==
    LET calls(kind) == [k \in DOMAIN target_ids |-> <<kind, target_ids[k]>>]
    IN  CASE mode = "run_once" -> calls("collect") \o calls("send")
          [] mode = "collect_only" -> calls("collect")
          [] mode = "send_only" -> calls("send")
          [] OTHER -> <<>>

Executing ==
    (IF collect.pc # "idle" THEN {<<"collect", collect.tenant_id>>} ELSE {})
    \cup (IF job.pc # "idle" THEN {<<"send", job.tenant_id>>} ELSE {})

\* C11: main() runs its jobs sequentially, collects before sends
JobsRunSequentially ==
    LET order == CallOrder(main.mode, main.target_ids)
        n == Len(main.returned)
    IN  /\ ~(collect.pc # "idle" /\ job.pc # "idle")
        /\ n <= Len(order)
        /\ main.returned = SubSeq(order, 1, n)
        /\ \A e \in Executing : n < Len(order) /\ e = order[n + 1]
        /\ (main.mode = "run_once" /\ job.pc # "idle")
              => \A k \in DOMAIN main.target_ids :
                    <<"collect", main.target_ids[k]>> \in Range(main.returned)

\* the send job of the second tenant of a --run-once run is delivering
JobsRunSequentiallyWitness ==
    /\ main.mode = "run_once"
    /\ Len(main.target_ids) = 2
    /\ job.pc = "first_batch"
    /\ job.tenant_id = main.target_ids[2]
    /\ Len(main.returned) = 3

----------------------------------------------------------------------------
(* The verification forms, with the wrong codes posted so far counted per  *)
(* verification.  Each POST runs in a session of its own: verify_submit    *)
(* and unsubscribe_verify_submit call db.commit() only after a success,    *)
(* and db.close() drops what a failed call flushed.                        *)

\* the count after a POST for verification_id that the manager answered
\* with msg: one more when the code was compared and did not match
CountWrongCode(verification_id, msg) ==
    IF msg = "code_mismatch"
    THEN [wrong_codes EXCEPT ![verification_id] = @ + 1]
    ELSE wrong_codes

\* POST /{tenant_id}/verify, counted; no more than
\* max_verification_attempts wrong codes are posted
verify_submit_counted(tenant_id, verification_id, raw_email, raw_code) ==
    /\ call_verify_subscribe("verify_submit", FALSE, tenant_id,
                             verification_id, raw_email, raw_code)
    /\ wrong_codes' = CountWrongCode(verification_id, last'.msg)
    /\ wrong_codes'[verification_id] <= max_verification_attempts

\* POST /{tenant_id}/unsubscribe/verify, counted
unsubscribe_verify_submit_counted(tenant_id, verification_id, raw_email, raw_code) ==
    /\ call_verify_unsubscribe("unsubscribe_verify_submit", FALSE, tenant_id,
                               verification_id, raw_email, raw_code)
    /\ wrong_codes' = CountWrongCode(verification_id, last'.msg)
    /\ wrong_codes'[verification_id] <= max_verification_attempts

NextAttempts ==
    \/ \E t \in TenantIds, e \in RawEmails, n \in Names :
         subscribe_submit(t, e, n)
    \/ \E t \in TenantIds, v \in VerificationIds, e \in RawEmails,
          c \in RawCodes : verify_submit_counted(t, v, e, c)
    \/ \E t \in TenantIds, e \in RawEmails : unsubscribe_submit(t, e)
    \/ \E t \in TenantIds, v \in VerificationIds, e \in RawEmails,
          c \in RawCodes : unsubscribe_verify_submit_counted(t, v, e, c)
    \/ \E t \in TenantIds, e \in RawEmails, n \in Names :
         subscriber_add(t, e, n)

SpecAttempts == Init /\ [][NextAttempts]_vars

----------------------------------------------------------------------------
(* C12 -- the attempt limit across HTTP requests.  When                    *)
(* max_verification_attempts wrong codes have been posted for a            *)
(* verification, each in its own request, a POST of the right code for     *)
(* that verification fails.                                                *)

\* C12: after max_verification_attempts wrong codes the right code is
\* rejected
AttemptLimitAcrossRequests ==
    \A v \in VerificationIds :
        (/\ last.op \in {"verify_submit", "unsubscribe_verify_submit"}
         /\ last.verification_id = v
         /\ last.code_ok
         /\ wrong_codes[v] >= max_verification_attempts)
            => ~last.ok

----------------------------------------------------------------------------
(* C13 -- a verification is used once.  A verify_subscribe call for a      *)
(* verification that is already verified (is_verified = True) changes no   *)
(* subscriber: it neither re-activates a subscriber nor replaces an        *)
(* unsubscribe token.                                                      *)

VerifySubscribeOps == {"verify_subscribe", "verify_submit"}
VerifyUnsubscribeOps == {"verify_unsubscribe", "unsubscribe_verify_submit"}

\* a step in which verify_subscribe is called for a verified verification
VerifiedAgainStep ==
    /\ last'.op \in VerifySubscribeOps
    /\ \E v \in email_verifications :
          v.id = last'.verification_id /\ v.is_verified

\* C13: verify_subscribe on a verified verification changes no subscriber
SingleUseVerification ==
    [][VerifiedAgainStep => subscribers' = subscribers]_vars

----------------------------------------------------------------------------
(* C14 -- verification types are kept apart.  Whenever verify_subscribe    *)
(* has succeeded, the verification it used is of type SUBSCRIBE, and       *)
(* whenever verify_unsubscribe has succeeded, the verification it used is  *)
(* of type UNSUBSCRIBE.                                                    *)

UsedVerificationType ==
    {v.verification_type :
        v \in {w \in email_verifications : w.id = last.verification_id}}

\* C14: a verify call succeeds only with a verification of its own type
TypesKeptApart ==
    /\ (last.op \in VerifySubscribeOps /\ last.ok)
          => UsedVerificationType = {"subscribe"}
    /\ (last.op \in VerifyUnsubscribeOps /\ last.ok)
          => UsedVerificationType = {"unsubscribe"}

----------------------------------------------------------------------------
(* C15 -- no duplicate delivery under overlap.  In every reachable state   *)
(* of the send job and the welcome thread running side by side, no         *)
(* subscriber has two success rows of the daily newsletter with sent_at    *)
(* on the same UTC day.                                                    *)

\* C15: at most one successful daily delivery per subscriber and day
NoDuplicateDelivery ==
    \A i, j \in DOMAIN send_history :
        (/\ i # j
         /\ send_history[i].is_success
         /\ send_history[j].is_success
         /\ send_history[i].newsletter_type = "daily"
         /\ send_history[j].newsletter_type = "daily"
         /\ send_history[i].tenant_id = send_history[j].tenant_id
         /\ send_history[i].subscriber_id = send_history[j].subscriber_id)
            => TodayStart(send_history[i].sent_at) # TodayStart(send_history[j].sent_at)

----------------------------------------------------------------------------
(* run_send_job(tenant_id, "weekly" | "monthly").  The data come from      *)
(* collected_data_history and from the cache entries a weekly or monthly   *)
(* collect job stored under the prefix of its type; the subscribers        *)
(* already served are those with a success row of the same type since the  *)
(* start of the week or of the month.  Day 0 of the model is a Monday and  *)
(* the first day of a month, and the days of the model lie in that month.  *)

SummaryTypes == {"weekly", "monthly"}

DaysPerWeek == 7

\* str.startswith on the data types that can be stored
StartsWith(data_type, prefix) ==
    \/ /\ prefix = "weekly_"
       /\ data_type \in {"weekly_summary", "weekly_daily_report",
                         "weekly_weekly_summary"}
    \/ /\ prefix = "monthly_"
       /\ data_type \in {"monthly_daily_report", "monthly_weekly_summary"}

\* f"{newsletter_type}_"
Prefix(newsletter_type) ==
    IF newsletter_type = "weekly" THEN "weekly_" ELSE "monthly_"

\* _get_period_range: the days the summary covers, first and last
PeriodRange(t, newsletter_type) ==
    LET today == t \div MinutesPerDay
    IN  IF newsletter_type = "weekly"
        THEN [date_from |-> today - DaysPerWeek, date_to |-> today - 1]
        ELSE IF today = 0
        THEN [date_from |-> 0 - 28, date_to |-> 0 - 1]
        ELSE [date_from |-> 0, date_to |-> today - 1]

\* _get_period_start_for_dedup: Monday 00:00 of this week, or the first of
\* this month 00:00
PeriodStartForDedup(t, newsletter_type) ==
    LET today == t \div MinutesPerDay
    IN  IF newsletter_type = "weekly"
        THEN (today - (today % DaysPerWeek)) * MinutesPerDay
        ELSE 0

get_history_range(hist, tenant_id, date_from, date_to) ==
    {r \in hist : /\ r.tenant_id = tenant_id
                  /\ r.collected_date >= date_from
                  /\ r.collected_date <= date_to}

\* the cache entries of the tenant stored under the prefix of the type
SummaryData(cd, tenant_id, newsletter_type) ==
    {dt \in DOMAIN get_all_latest(cd, tenant_id) :
        StartsWith(dt, Prefix(newsletter_type))}

get_sent_subscriber_ids_for_period(hist, tenant_id, newsletter_type, period_start) ==
    {hist[i].subscriber_id :
        i \in {j \in DOMAIN hist : /\ hist[j].tenant_id = tenant_id
                                   /\ hist[j].newsletter_type = newsletter_type
                                   /\ hist[j].sent_at >= period_start
                                   /\ hist[j].is_success}}

\* from the start of a weekly or monthly job to the first batch
run_send_job_start_summary(tenant_id, newsletter_type, formats, renders) ==
    /\ job.pc = "idle"
    /\ newsletter_type \in SummaryTypes
    /\ LET range == PeriodRange(now, newsletter_type)
           history_data == get_history_range(collected_data_history, tenant_id,
                                             range.date_from, range.date_to)
           summary_data == SummaryData(collected_data, tenant_id, newsletter_type)
           active == get_all_active(subscribers, tenant_id)
           sent_ids == get_sent_subscriber_ids_for_period(
                           send_history, tenant_id, newsletter_type,
                           PeriodStartForDedup(now, newsletter_type))
           targets == SortedSeq(active \ sent_ids)
           returns(outcome) ==
               job' = [NoJob EXCEPT !.pc = "returned",
                                    !.tenant_id = tenant_id,
                                    !.newsletter_type = newsletter_type,
                                    !.outcome = outcome]
       IN  IF ~is_configured THEN returns("not_configured")
           ELSE IF history_data = {} /\ summary_data = {} THEN returns("no_data")
           ELSE IF ~formats THEN returns("format_failed")
           ELSE IF ~renders THEN returns("render_failed")
           ELSE IF active = {} THEN returns("no_subscribers")
           ELSE IF targets = <<>> THEN returns("nothing_to_send")
           ELSE job' = [NoJob EXCEPT
                           !.pc = "first_batch",
                           !.tenant_id = tenant_id,
                           !.newsletter_type = newsletter_type,
                           !.targets = targets,
                           !.sendmail = [x \in Range(targets) |-> 0],
                           !.passes = [x \in Range(targets) |-> 0]]
    /\ UNCHANGED <<send_history, welcome>>
    /\ UnchangedBySend

(* The send jobs of every type for a tenant that has them all, on a       *)
(* database with two active subscribers and a cache that holds the daily   *)
(* data and the copies of a weekly and of a monthly collection.            *)
TypesTenant == "edufit"

CachedRow(tenant_id, data_type) ==
    [tenant_id |-> tenant_id, data_type |-> data_type,
     data_json |-> JsonDumps([total |-> 1]), collected_at |-> 0]

InitTypes ==
    /\ subscribers = <<SendSubscriber(TypesTenant, "kim@x.io", 1, TRUE),
                        SendSubscriber(TypesTenant, "lee@x.io", 2, TRUE)>>
    /\ email_verifications = {}
    /\ next_verification_id = 1
    /\ next_token = 3
    /\ now = 0
    /\ last = NoRequest
    /\ send_history = <<>>
    /\ collected_data = <<CachedRow(TypesTenant, "daily_report"),
                          CachedRow(TypesTenant, "weekly_daily_report"),
                          CachedRow(TypesTenant, "monthly_daily_report")>>
    /\ collected_data_history = {}
    /\ job = NoJob
    /\ welcome = NoWelcome
    /\ collect = NoCollect
    /\ http = NoHttp
    /\ is_configured = TRUE
    /\ main = NoMain
    /\ wrong_codes = NoWrongCodes
    /\ sessions = NoSessions

NextTypes ==
    \/ \E renders \in BOOLEAN : run_send_job_start(TypesTenant, renders)
    \/ \E nt \in SummaryTypes, formats \in BOOLEAN, renders \in BOOLEAN :
          run_send_job_start_summary(TypesTenant, nt, formats, renders)
    \/ \E db_ok \in BOOLEAN :
          \E script \in [DOMAIN job.targets -> SendScripts] :
              run_send_job_first_batch(TRUE, script, db_ok)
    \/ \E db_ok \in BOOLEAN :
          \E script \in [DOMAIN job.failed_items -> SendScripts] :
              run_send_job_retry(TRUE, script, db_ok)
    \/ run_send_job_return
    \/ NextDay

SpecTypes == InitTypes /\ [][NextTypes]_vars

----------------------------------------------------------------------------
(* C16 -- duplicate suppression is scoped to the newsletter type.  A send  *)
(* job of one type that gets as far as choosing its targets targets every  *)
(* active subscriber of the tenant that has no success row of the same     *)
(* type in the period of that type (the UTC day for daily, the week for    *)
(* weekly, the month for monthly), whatever rows of other types exist.     *)

\* the subscribers with a success row of the type since the period start
ServedInPeriod(tenant_id, newsletter_type) ==
    {sid \in DOMAIN subscribers :
        \E i \in DOMAIN send_history :
            /\ send_history[i].tenant_id = tenant_id
            /\ send_history[i].subscriber_id = sid
            /\ send_history[i].newsletter_type = newsletter_type
            /\ send_history[i].is_success
            /\ send_history[i].sent_at >=
                  (IF newsletter_type = "daily" THEN TodayStart(now)
                   ELSE PeriodStartForDedup(now, newsletter_type))}

\* the active subscribers of the tenant the job of the type owes a mail
OwedTo(tenant_id, newsletter_type) ==
    {sid \in DOMAIN subscribers :
        /\ subscribers[sid].tenant_id = tenant_id
        /\ subscribers[sid].is_active} \ ServedInPeriod(tenant_id, newsletter_type)

\* a step in which a send job chooses its targets, or finds none
ChoosesTargets ==
    /\ job.pc = "idle"
    /\ job'.pc = "first_batch" \/ job'.outcome = "nothing_to_send"

\* C16: the targets of a job are decided by the rows of its own type only
DedupScopedToType ==
    [][ChoosesTargets =>
          Range(job'.targets) = OwedTo(job'.tenant_id, job'.newsletter_type)]_vars

----------------------------------------------------------------------------
(* C17 -- the daily send uses everything the daily collection stored.      *)
(* Whenever a daily send job has formatted its report, the dict it passed  *)
(* to format_report holds every data type that the daily collect job       *)
(* cached for the tenant, with the cached value, and none of the copies a  *)
(* weekly or monthly collect job stored under its prefix.                  *)

\* the data types of the tenant cached by daily collect jobs
CachedByDailyCollect(tenant_id) ==
    {dt \in DataTypes : CollectedRows(collected_data, tenant_id, dt) # {}}

\* C17: format_report gets exactly what the daily collection cached
DailySendUsesDailyCollection ==
    (job.pc = "first_batch" /\ job.newsletter_type = "daily")
        => /\ DOMAIN job.formatter_input = CachedByDailyCollect(job.tenant_id)
           /\ \A dt \in DOMAIN job.formatter_input :
                 job.formatter_input[dt] \in
                     get_latest(collected_data, job.tenant_id, dt)

----------------------------------------------------------------------------
(* C18 -- delivered implies recorded.  When a send job has returned or     *)
(* raised, every subscriber whose message the SMTP server accepted in the  *)
(* first batch or in the retry has a committed success row of the job's    *)
(* tenant and type in send_history.                                        *)

\* the subscribers the job delivered to
DeliveredTo ==
    {job.targets[i] : i \in {k \in DOMAIN job.results : job.results[k].success}}
    \cup {job.failed_items[i] :
             i \in {k \in DOMAIN job.retry_results : job.retry_results[k].success}}

\* C18: what a finished send job delivered is in send_history
DeliveredImpliesRecorded ==
    job.pc = "returned"
        => \A sid \in DeliveredTo :
              \E i \in DOMAIN send_history :
                  /\ send_history[i].tenant_id = job.tenant_id
                  /\ send_history[i].subscriber_id = sid
                  /\ send_history[i].newsletter_type = job.newsletter_type
                  /\ send_history[i].is_success

----------------------------------------------------------------------------
(* C19 -- the bookkeeping of one send job.  A recipient is in a second     *)
(* batch only when the first batch is complete and its first result was a  *)
(* failure, and in no third one.  When the job has ended normally, the     *)
(* rows it wrote begin with one row per target, in order, carrying the     *)
(* result of the first attempt; they go on with one success row for each   *)
(* retried recipient whose retry succeeded and none for a retry that       *)
(* failed; all of them are in send_history; and sent_count is the number   *)
(* of targets with a success row among them.                               *)

FirstFailed == {job.targets[i] : i \in {k \in DOMAIN job.results : ~job.results[k].success}}

RetrySucceeded ==
    {job.failed_items[i] :
        i \in {k \in DOMAIN job.retry_results : job.retry_results[k].success}}

RetryRows == SubSeq(job.session, Len(job.targets) + 1, Len(job.session))

\* C19: one row per first attempt, one retry per failure, one more row per
\* successful retry, and sent_count counts the targets served
SendRetryBookkeeping ==
    /\ \A x \in DOMAIN job.passes :
          /\ job.passes[x] <= 2
          /\ job.passes[x] = 2
                => Len(job.results) = Len(job.targets) /\ x \in FirstFailed
    /\ (job.pc = "returned" /\ job.outcome = "done")
          => /\ Len(job.session) >= Len(job.targets)
             /\ \A i \in DOMAIN job.targets :
                   /\ job.session[i].subscriber_id = job.targets[i]
                   /\ job.session[i].is_success = job.results[i].success
                   /\ job.session[i].error_message = job.results[i].error_message
             /\ \A x \in Range(job.targets) :
                   job.passes[x] = IF x \in FirstFailed THEN 2 ELSE 1
             /\ \A i \in DOMAIN RetryRows : RetryRows[i].is_success
             /\ {RetryRows[i].subscriber_id : i \in DOMAIN RetryRows} = RetrySucceeded
             /\ Len(RetryRows) = Cardinality(RetrySucceeded)
             /\ \A i \in DOMAIN job.session :
                   \E j \in DOMAIN send_history : send_history[j] = job.session[i]
             /\ job.sent_count =
                   Cardinality({x \in Range(job.targets) :
                       \E i \in DOMAIN job.session :
                           /\ job.session[i].subscriber_id = x
                           /\ job.session[i].is_success})

\* a job has ended after a retry that succeeded for one recipient and
\* failed for another
SendRetryBookkeepingWitness ==
    /\ job.pc = "returned"
    /\ job.outcome = "done"
    /\ Len(job.failed_items) = 2
    /\ Cardinality(RetrySucceeded) = 1

----------------------------------------------------------------------------
(* C20 -- what send_batch_efficient hands back to run_send_job.  Both      *)
(* batches of a job return one result per message, in the order of the     *)
(* messages and for the same recipient, a success without an error or a    *)
(* failure with one.  A sender that is not configured and a connection     *)
(* that cannot be opened fail the whole batch without a sendmail call; a   *)
(* connection that was opened never fails a message as unconnected, so     *)
(* after a disconnect the rest of the batch is still attempted: sendmail   *)
(* is called once for each message and once more for a message at which    *)
(* the server had disconnected.  The job always goes on to record what     *)
(* the batch returned; no batch ends it.                                   *)

FirstBatchReturned == \E x \in DOMAIN job.passes : job.passes[x] >= 1

RetryBatchReturned == \E x \in DOMAIN job.passes : job.passes[x] = 2

WholeBatchErrors == {"not_configured", "connect_failed"}

\* results is a well-formed answer to messages
AnswersInOrder(messages, results) ==
    /\ Len(results) = Len(messages)
    /\ \A i \in DOMAIN messages :
          /\ results[i].recipient = messages[i]
          /\ results[i].success <=> results[i].error_message = ""
          /\ results[i].error_message \in
                {"", "refused", "resend_failed"} \cup WholeBatchErrors
    /\ \A i, k \in DOMAIN results :
          results[i].error_message \in WholeBatchErrors
              => results[k].error_message = results[i].error_message
    /\ ~is_configured
          => \A i \in DOMAIN results : results[i].error_message = "not_configured"

----------------------------------------------------------------------------
(* C21 -- the unsubscribe link and the tenant of its URL.  A request       *)
(* GET /{tenant_id}/unsubscribe/token/{token} leaves every subscriber of   *)
(* another tenant as it was: the token of a subscriber of tenant A under   *)
(* the URL of tenant B deactivates nobody.                                 *)

TokenUnsubscribeStep ==
    (last'.op = "unsubscribe_by_token_route")
        => \A i \in DOMAIN subscribers :
              subscribers[i].tenant_id # last'.tenant_id
                 => /\ i \in DOMAIN subscribers'
                    /\ subscribers'[i] = subscribers[i]

\* C21: an unsubscribe link deactivates only a subscriber of the tenant in
\* its URL
TokenUnsubscribeRespectsTenant == [][TokenUnsubscribeStep]_vars

----------------------------------------------------------------------------
(* C22 -- the attempt counter inside the manager.  The attempts of every   *)
(* verification stay between 0 and max_verification_attempts.  A verify    *)
(* call that finds its verification unexpired and below the limit and is   *)
(* given a wrong code adds exactly 1 to its attempts, reports the limit    *)
(* minus the new count as remaining, fails, and leaves is_verified, every  *)
(* other verification and all subscribers as they were; any other verify   *)
(* call that fails leaves every counter as it was; and a verify call on a  *)
(* verification whose attempts equal the limit fails and changes nothing.  *)

VerifyOps == {"verify_subscribe", "verify_unsubscribe"}

\* this step is a verify call of the manager
VerifyCall == now' = now /\ last'.op \in VerifyOps

\* the verification row with the id the call was given
Addressed == {v \in email_verifications : v.id = last'.verification_id}

AttemptsInRange ==
    \A v \in email_verifications : v.attempts \in 0..max_verification_attempts

\* C22 as stated: every verify call with a wrong code that finds its
\* verification below the limit adds one to its attempts
WrongCodeAlwaysCounted ==
    [][(/\ VerifyCall
        /\ last'.msg # "not_found"
        /\ ~last'.code_ok)
          => \A v \in Addressed :
                v.attempts < max_verification_attempts
                   => \E w \in email_verifications' :
                         w.id = v.id /\ w.attempts = v.attempts + 1]_vars

AttemptCounterStep ==
    VerifyCall =>
      /\ (last'.msg = "code_mismatch") <=>
            /\ last'.msg # "not_found"
            /\ ~last'.code_ok
            /\ \E v \in Addressed :
                  now <= v.expires_at /\ v.attempts < max_verification_attempts
      /\ (last'.msg = "code_mismatch") =>
            /\ ~last'.ok
            /\ subscribers' = subscribers
            /\ \E v \in Addressed :
                  /\ email_verifications' =
                        (email_verifications \ {v}) \cup
                           {[v EXCEPT !.attempts = v.attempts + 1]}
                  /\ last'.remaining =
                        max_verification_attempts - (v.attempts + 1)
      /\ (~last'.ok /\ last'.msg # "code_mismatch") =>
            /\ email_verifications' = email_verifications
            /\ subscribers' = subscribers
      /\ (last'.msg # "not_found"
          /\ \E v \in Addressed : v.attempts = max_verification_attempts) =>
            /\ ~last'.ok
            /\ email_verifications' = email_verifications
            /\ subscribers' = subscribers

\* C22: the counter stays within 0..max_verification_attempts, a wrong
\* code on a live verification adds exactly one, and at the limit every
\* verify call fails and changes nothing
AttemptCounter == [](AttemptsInRange) /\ [][AttemptCounterStep]_vars

\* the limit has been reached by wrong codes and a verify call with the
\* right code has just been refused for it
AttemptCounterWitness ==
    /\ last.op \in VerifyOps
    /\ last.msg = "attempts_exceeded"
    /\ last.code_ok
    /\ \E v \in email_verifications :
          /\ v.id = last.verification_id
          /\ v.attempts = max_verification_attempts
          /\ ~v.is_verified

----------------------------------------------------------------------------
(* Requests served at the same time.  Each request has its own session:    *)
(* it first reads (the verification, the subscriber of the address) and    *)
(* decides what to write, and later flushes and commits; requests of other *)
(* sessions may commit in between.  The database rejects the INSERT of a   *)
(* subscriber whose (tenant_id, email) is already there                    *)
(* (uq_subscriber_tenant_email) and the UPDATE of a row that is gone; the  *)
(* handler then rolls its session back.                                    *)

\* mutant: the table has no unique constraint
uq_subscriber_tenant_email_absent(subs, tenant_id, email) == TRUE

\* UniqueConstraint("tenant_id", "email"): the row may be inserted
uq_subscriber_tenant_email(subs, tenant_id, email) ==
    \A i \in DOMAIN subs :
        ~(subs[i].tenant_id = tenant_id /\ subs[i].email = email)

\* POST /{tenant_id}/verify up to the reads of verify_subscribe
verify_submit_read(s, tenant_id, verification_id, raw_email, raw_code) ==
    LET r == verify_subscribe(subscribers, email_verifications, now,
                              next_token, verification_id, raw_email,
                              raw_code)
    IN  /\ sessions[s].pc = "idle"
        /\ r.ok
        /\ next_token <= MaxTokens
        /\ LET v == VerificationById(email_verifications, verification_id)
               existing == get_by_email(subscribers, v.tenant_id, raw_email)
           IN  sessions' = [sessions EXCEPT ![s] =
                   [pc |-> "read", op |-> "verify_submit",
                    tenant_id |-> tenant_id,
                    verification_id |-> verification_id,
                    write |-> IF existing # 0 THEN "update" ELSE "insert",
                    subscriber_id |-> existing,
                    row_tenant_id |-> v.tenant_id,
                    email |-> raw_email,
                    name |-> IF existing # 0 /\ v.name = ""
                             THEN subscribers[existing].name ELSE v.name,
                    unsubscribe_token |-> next_token]]
        /\ next_token' = next_token + 1
        /\ UNCHANGED <<subscribers, email_verifications, next_verification_id,
                       now, last, send_history, collected_data,
                       collected_data_history, job, welcome, collect, http,
                       is_configured, main, wrong_codes>>

\* POST /admin/{tenant_id}/subscribers/add up to the read of get_by_email
subscriber_add_read(s, tenant_id, raw_email, name) ==
    LET email == NormalizeEmail(raw_email)
        existing == get_by_email(subscribers, tenant_id, email)
    IN  /\ sessions[s].pc = "idle"
        /\ existing # 0 => ~subscribers[existing].is_active
        /\ existing = 0 => next_token <= MaxTokens
        /\ sessions' = [sessions EXCEPT ![s] =
               [pc |-> "read", op |-> "subscriber_add",
                tenant_id |-> tenant_id, verification_id |-> 0,
                write |-> IF existing # 0 THEN "update" ELSE "insert",
                subscriber_id |-> existing,
                row_tenant_id |-> tenant_id,
                email |-> email,
                name |-> IF existing # 0 THEN subscribers[existing].name
                         ELSE name,
                unsubscribe_token |-> IF existing # 0
                                      THEN subscribers[existing].unsubscribe_token
                                      ELSE next_token]]
        /\ next_token' = IF existing = 0 THEN next_token + 1 ELSE next_token
        /\ UNCHANGED <<subscribers, email_verifications, next_verification_id,
                       now, last, send_history, collected_data,
                       collected_data_history, job, welcome, collect, http,
                       is_configured, main, wrong_codes>>

\* the session flushes its writes and commits, or the database raises and
\* the handler rolls back
session_commit(s) ==
    LET w == sessions[s]
        verification_there ==
            w.verification_id = 0
            \/ \E v \in email_verifications : v.id = w.verification_id
        accepted ==
            /\ verification_there
            /\ w.write = "insert"
                  => uq_subscriber_tenant_email(subscribers, w.row_tenant_id,
                                                w.email)
        vers == IF w.verification_id = 0 THEN email_verifications
                ELSE UpdateVerification(email_verifications, w.verification_id,
                        [VerificationById(email_verifications, w.verification_id)
                            EXCEPT !.is_verified = TRUE])
        subs == IF w.write = "insert"
                THEN SubscriberCreate(subscribers, w.row_tenant_id, w.email,
                                      w.name, w.unsubscribe_token)
                ELSE [subscribers EXCEPT ![w.subscriber_id] =
                         [@ EXCEPT !.is_active = TRUE,
                                   !.name = w.name,
                                   !.unsubscribe_token = w.unsubscribe_token]]
        r == IF accepted
             THEN Result(TRUE, "committed", subs, vers, w.verification_id,
                         IF w.write = "insert" THEN Len(subscribers) + 1
                         ELSE w.subscriber_id, 0)
             ELSE Result(FALSE, "rolled_back", subscribers,
                         email_verifications, w.verification_id, 0, 0)
    IN  /\ w.pc = "read"
        /\ Apply(r, r.ok)
        /\ last' = Request(w.op, w.tenant_id, w.verification_id, "", 0, r)
        /\ sessions' = [sessions EXCEPT ![s] = NoSession]
        /\ UNCHANGED <<next_verification_id, next_token, now, send_history,
                       collected_data, collected_data_history, job, welcome,
                       collect, http, is_configured, main, wrong_codes>>

SessionsTenant == "teacher-hub"

NextSessions ==
    \/ \E e \in RawEmails, n \in Names :
         subscribe_submit(SessionsTenant, e, n)
    \/ \E s \in SessionIds, v \in VerificationIds, e \in RawEmails,
          c \in GeneratedCodes : verify_submit_read(s, SessionsTenant, v, e, c)
    \/ \E s \in SessionIds, t \in TenantIds, e \in RawEmails :
         subscriber_add_read(s, t, e, "")
    \/ \E s \in SessionIds : session_commit(s)
    \/ \E e \in RawEmails : unsubscribe_submit(SessionsTenant, e)
    \/ \E v \in VerificationIds, e \in RawEmails, c \in GeneratedCodes :
         unsubscribe_verify_submit(SessionsTenant, v, e, c)
    \/ \E k \in TokenValues :
         unsubscribe_by_token_route(SessionsTenant, k)

SpecSessions == Init /\ [][NextSessions]_vars

----------------------------------------------------------------------------
(* C23 -- one subscriber row per (tenant_id, email).  In every reachable   *)
(* state no two rows of subscribers have the same tenant_id and email.  No *)
(* step deletes a row or changes its tenant_id or email, so unsubscribing  *)
(* only clears is_active; a subscription or an admin add that commits for  *)
(* an address that has a row leaves the number of rows as it was and that  *)
(* row active; and of two requests that both read "no such subscriber"     *)
(* and both insert, the second is rolled back.                             *)

OneRowPerKey ==
    \A i, j \in DOMAIN subscribers :
        (/\ subscribers[i].tenant_id = subscribers[j].tenant_id
         /\ subscribers[i].email = subscribers[j].email) => i = j

RowsKeptStep ==
    /\ Len(subscribers') >= Len(subscribers)
    /\ \A i \in DOMAIN subscribers :
          /\ subscribers'[i].tenant_id = subscribers[i].tenant_id
          /\ subscribers'[i].email = subscribers[i].email
    /\ (/\ last'.op \in {"verify_submit", "subscriber_add"}
        /\ last'.ok
        /\ subscribers' # subscribers)
          => /\ last'.subscriber_id \in DOMAIN subscribers'
             /\ subscribers'[last'.subscriber_id].is_active
             /\ Len(subscribers') = Len(subscribers) + 1
                   => get_by_email(subscribers,
                         subscribers'[last'.subscriber_id].tenant_id,
                         subscribers'[last'.subscriber_id].email) = 0
    /\ (last'.op \in {"unsubscribe_verify_submit", "unsubscribe_by_token_route"}
        /\ subscribers' # subscribers)
          => Len(subscribers') = Len(subscribers)

\* C23: never two subscriber rows with the same tenant and address, and
\* no row is ever deleted
OneSubscriberPerTenantEmail == [](OneRowPerKey) /\ [][RowsKeptStep]_vars

\* two requests had both found no subscriber of the address; the first has
\* inserted the row and the insert of the second has just been rolled back
OneSubscriberPerTenantEmailWitness ==
    /\ last.op = "verify_submit"
    /\ last.msg = "rolled_back"
    /\ \E v \in email_verifications :
          /\ v.id = last.verification_id
          /\ v.is_verified
          /\ \E i \in DOMAIN subscribers :
                /\ subscribers[i].tenant_id = v.tenant_id
                /\ subscribers[i].email = v.email
                /\ subscribers[i].is_active
    /\ \A s \in SessionIds : sessions[s].pc = "idle"

----------------------------------------------------------------------------
(* C24 -- retry_async(f, max_retries, base_delay), max_retries >= 1.  It   *)
(* never calls f more than max_retries times.  It has slept once after     *)
(* each failed call but the last one, base_delay * 2^(k-1) after the k-th. *)
(* When it returns, the call that succeeded was its last call and every    *)
(* call before it had failed; when it raises, it has made max_retries      *)
(* calls, all failed, and has not slept after the last.  No call is made   *)
(* once it has returned or raised, and it always returns or raises.        *)

InRetryAsync == http.retry /\ http.pc # "idle"

Backoff(base_delay, n) == [k \in 1..n |-> base_delay * (2 ^ (k - 1))]

RetryAsyncState ==
    InRetryAsync =>
        /\ http.calls <= http.max_retries
        /\ http.slept = Backoff(http.base_delay, Len(http.slept))
        /\ http.pc = "requesting"
              => /\ http.calls = Len(http.slept)
                 /\ http.calls = http.attempt
                 /\ http.attempt < http.max_retries
        /\ http.pc = "returned" => http.calls = Len(http.slept) + 1
        /\ http.pc = "raised"
              => /\ http.calls = http.max_retries
                 /\ Len(http.slept) = http.max_retries - 1

RetryAsyncStep ==
    /\ (http.pc \in {"returned", "raised"} /\ http.retry)
          => (http' = http \/ http' = NoHttp)
    /\ (http.pc = "requesting" /\ http.retry /\ http' # http)
          => /\ http'.calls = http.calls + 1
             /\ http'.max_retries = http.max_retries
             /\ http'.base_delay = http.base_delay
             /\ http'.pc = "requesting"
                   => http'.slept =
                         Append(http.slept,
                                http.base_delay * (2 ^ (http'.calls - 1)))
             /\ http'.pc # "requesting" => http'.slept = http.slept

RetryAsyncEnds ==
    (http.pc = "requesting" /\ http.retry)
        ~> (http.pc \in {"returned", "raised"})

\* C24: at most max_retries calls, the first success ends it, exponential
\* sleeps between the failures, none before the final raise, and it ends
RetryAsyncContract ==
    [](RetryAsyncState) /\ [][RetryAsyncStep]_vars /\ RetryAsyncEnds

\* retry_async(f, 4, 1) has raised after four failed calls and sleeps of
\* 1, 2 and 4
RetryAsyncContractWitness ==
    /\ http.caller = "retry_async"
    /\ http.pc = "raised"
    /\ http.max_retries = 4
    /\ http.calls = 4
    /\ http.slept = <<1, 2, 4>>

====
